---- MODULE Spec2Model ----
(***************************************************************************)
(* Optimist Farm image generator: the configuration store                  *)
(* (src/src/config_manager.py, ConfigManager) and the generation engine    *)
(* (src/src/generator.py, OptimistFarmGenerator).                          *)
(*                                                                         *)
(* Values.  A Python str is a sequence of atoms (text pieces; the braces   *)
(* "{" and "}" of a template are atoms of their own, and so is a leading   *)
(* "http"), so that str.format, str.replace and str.startswith are         *)
(* computed and not assumed.  A JSON value is a tagged node [t, v]; a dict *)
(* is the ordered sequence of its <<key, value>> items, as a Python dict   *)
(* keeps insertion order.                                                  *)
(***************************************************************************)
EXTENDS Integers, Sequences, FiniteSets, TLC

VARIABLES
  raw,              \* ConfigManager._raw_config
  characters,       \* ConfigManager._characters
  locations,        \* ConfigManager._locations
  books,            \* ConfigManager._books
  style_presets,    \* ConfigManager._style_presets
  prompt_templates, \* ConfigManager._prompt_templates
  image_settings,   \* ConfigManager._image_settings
  disk,             \* the document at ConfigManager.config_path
  ret,              \* what the last store call did: [op, ok, ...]
  nmut,             \* number of store calls so far (bounded)
  save_to_disk,     \* OptimistFarmGenerator.save_to_disk
  uploaded,         \* OptimistFarmGenerator._uploaded_images: path -> url
  files,            \* the local files that exist (reference images)
  nupload,          \* number of fal_client.upload calls so far
  call,             \* the engine call in progress, or the last one
  ncalls            \* number of engine calls so far (bounded)

engineVars == <<save_to_disk, uploaded, files, nupload, call, ncalls>>

storeVars == <<raw, characters, locations, books, style_presets,
               prompt_templates, image_settings, disk, ret, nmut>>

-----------------------------------------------------------------------------
(* Program constants: money is counted in cents *)
DefaultCost == 4
DefaultDelay == 1

(* JSON values *)

S(atoms) == [t |-> "str", v |-> atoms]
N(n) == [t |-> "num", v |-> n]
B(b) == [t |-> "bool", v |-> b]
L(elems) == [t |-> "list", v |-> elems]
D(items) == [t |-> "dict", v |-> items]
None == [t |-> "null", v |-> <<>>]

IsDict(x) == x.t = "dict"

(* Python dict operations on the item sequence of a dict *)
Keys(items) == [i \in 1..Len(items) |-> items[i][1]]
Has(items, k) == \E i \in 1..Len(items) : items[i][1] = k
Index(items, k) == CHOOSE i \in 1..Len(items) : items[i][1] = k
At(items, k) == items[Index(items, k)][2]
Get(items, k, default) == IF Has(items, k) THEN At(items, k) ELSE default
Put(items, k, val) ==
  IF Has(items, k)
  THEN [items EXCEPT ![Index(items, k)] = <<k, val>>]
  ELSE Append(items, <<k, val>>)

(* d.get(k, default) on a dict node; the value of the node itself *)
NodeGet(d, k, default) == Get(d.v, k, default)

(* dict.update(updates): every item of updates is put, in order *)
RECURSIVE Update(_, _)
Update(items, updates) ==
  IF updates = <<>> THEN items
  ELSE Update(Put(items, updates[1][1], updates[1][2]), Tail(updates))

-----------------------------------------------------------------------------
(* json.dump and json.load: a document is a sequence of tokens [k, v] *)

Tok(k, v) == [k |-> k, v |-> v]

RECURSIVE Dump(_)
RECURSIVE DumpElems(_)
RECURSIVE DumpItems(_)
DumpElems(elems) ==
  IF elems = <<>> THEN <<>> ELSE Dump(elems[1]) \o DumpElems(Tail(elems))
DumpItems(items) ==
  IF items = <<>> THEN <<>>
  ELSE <<Tok("key", items[1][1])>> \o Dump(items[1][2]) \o DumpItems(Tail(items))
Dump(x) ==
  CASE x.t = "dict" -> <<Tok("{", <<>>)>> \o DumpItems(x.v) \o <<Tok("}", <<>>)>>
    [] x.t = "list" -> <<Tok("[", <<>>)>> \o DumpElems(x.v) \o <<Tok("]", <<>>)>>
    [] OTHER -> <<Tok(x.t, x.v)>>

ParseFail == [ok |-> FALSE, node |-> None, next |-> 0]

RECURSIVE ParseValue(_, _)
RECURSIVE ParseMembers(_, _, _)
RECURSIVE ParseElems(_, _, _)
ParseMembers(toks, i, acc) ==
  IF i > Len(toks) THEN ParseFail
  ELSE IF toks[i].k = "}" THEN [ok |-> TRUE, node |-> D(acc), next |-> i + 1]
  ELSE IF toks[i].k = "key"
       THEN LET r == ParseValue(toks, i + 1)
            IN IF r.ok THEN ParseMembers(toks, r.next, Put(acc, toks[i].v, r.node))
               ELSE ParseFail
       ELSE ParseFail
ParseElems(toks, i, acc) ==
  IF i > Len(toks) THEN ParseFail
  ELSE IF toks[i].k = "]" THEN [ok |-> TRUE, node |-> L(acc), next |-> i + 1]
  ELSE LET r == ParseValue(toks, i)
       IN IF r.ok THEN ParseElems(toks, r.next, Append(acc, r.node)) ELSE ParseFail
ParseValue(toks, i) ==
  IF i > Len(toks) THEN ParseFail
  ELSE CASE toks[i].k = "{" -> ParseMembers(toks, i + 1, <<>>)
         [] toks[i].k = "[" -> ParseElems(toks, i + 1, <<>>)
         [] toks[i].k \in {"str", "num", "bool", "null"} ->
              [ok |-> TRUE, node |-> [t |-> toks[i].k, v |-> toks[i].v], next |-> i + 1]
         [] OTHER -> ParseFail

(* json.load(f): the whole document is one value, or JSONDecodeError *)
JsonLoad(toks) ==
  LET r == ParseValue(toks, 1)
  IN IF r.ok /\ r.next = Len(toks) + 1 THEN r ELSE ParseFail

-----------------------------------------------------------------------------
(* The typed records *)

(* Character.from_dict taking the id from the data where the data has one *)
CharacterFromDictDataId(char_id, data) ==
  [id |-> NodeGet(data, "id", S(<<char_id>>)).v[1],
   name |-> NodeGet(data, "name", S(<<>>)),
   role |-> NodeGet(data, "role", S(<<"core">>)),
   description |-> NodeGet(data, "description", S(<<>>)),
   personality |-> NodeGet(data, "personality", S(<<>>)),
   visual_cues |-> NodeGet(data, "visual_cues", S(<<>>)),
   virtues |-> NodeGet(data, "virtues", L(<<>>)),
   reference_image |-> NodeGet(data, "reference_image", S(<<>>)),
   locations |-> NodeGet(data, "locations", L(<<>>)),
   special_function |-> NodeGet(data, "special_function", None),
   appears_with_chime |-> NodeGet(data, "appears_with_chime", B(FALSE))]

CharacterFromDict(char_id, data) ==
  [id |-> char_id,
   name |-> NodeGet(data, "name", S(<<>>)),
   role |-> NodeGet(data, "role", S(<<"core">>)),
   description |-> NodeGet(data, "description", S(<<>>)),
   personality |-> NodeGet(data, "personality", S(<<>>)),
   visual_cues |-> NodeGet(data, "visual_cues", S(<<>>)),
   virtues |-> NodeGet(data, "virtues", L(<<>>)),
   reference_image |-> NodeGet(data, "reference_image", S(<<>>)),
   locations |-> NodeGet(data, "locations", L(<<>>)),
   special_function |-> NodeGet(data, "special_function", None),
   appears_with_chime |-> NodeGet(data, "appears_with_chime", B(FALSE))]

LocationFromDict(loc_id, data) ==
  [id |-> loc_id,
   name |-> NodeGet(data, "name", S(<<>>)),
   description |-> NodeGet(data, "description", S(<<>>)),
   associated_virtues |-> NodeGet(data, "associated_virtues", L(<<>>)),
   associated_characters |-> NodeGet(data, "associated_characters", L(<<>>))]

BookFromDict(book_id, data) ==
  [id |-> book_id,
   title |-> NodeGet(data, "title", S(<<>>)),
   book_number |-> NodeGet(data, "book_number", N(0)),
   virtue |-> NodeGet(data, "virtue", S(<<>>)),
   featured_character |-> NodeGet(data, "featured_character", S(<<>>)),
   supporting_characters |-> NodeGet(data, "supporting_characters", L(<<>>)),
   primary_location |-> NodeGet(data, "primary_location", S(<<>>)),
   prop |-> NodeGet(data, "prop", S(<<>>)),
   mantra |-> NodeGet(data, "mantra", S(<<>>)),
   micro_ritual |-> NodeGet(data, "micro_ritual", D(<<>>)),
   scenes |-> NodeGet(data, "scenes", L(<<>>))]

FromDict(kind, id, data) ==
  CASE kind = "characters" -> CharacterFromDict(id, data)
    [] kind = "locations" -> LocationFromDict(id, data)
    [] kind = "books" -> BookFromDict(id, data)

ImageSettingsFrom(img) ==
  [aspect_ratios |-> NodeGet(img, "aspect_ratios", D(<<>>)),
   default_aspect_ratio |-> NodeGet(img, "default_aspect_ratio", S(<<"square">>)),
   hero_shot_ratio |-> NodeGet(img, "hero_shot_ratio", S(<<"square">>)),
   scene_ratio |-> NodeGet(img, "scene_ratio", S(<<"landscape">>)),
   cover_ratio |-> NodeGet(img, "cover_ratio", S(<<"portrait">>)),
   group_shot_ratio |-> NodeGet(img, "group_shot_ratio", S(<<"landscape">>))]

(* One loop of _parse_config: the collection is reset, then filled entry by
   entry; an entry that is no dict raises (AttributeError on .get) and leaves
   the entries parsed before it. *)
RECURSIVE ParseEntries(_, _, _)
ParseEntries(kind, items, acc) ==
  IF items = <<>> THEN [ok |-> TRUE, val |-> acc]
  ELSE IF ~IsDict(items[1][2]) THEN [ok |-> FALSE, val |-> acc]
  ELSE ParseEntries(kind, Tail(items),
                    Put(acc, items[1][1], FromDict(kind, items[1][1], items[1][2])))

ParseSection(r, kind) ==
  LET sec == NodeGet(r, kind, D(<<>>))
  IN IF IsDict(sec) THEN ParseEntries(kind, sec.v, <<>>)
     ELSE [ok |-> FALSE, val |-> <<>>]

(* _parse_config on raw r, from the typed state old; [ok, characters, ...]:
   ok is FALSE when it raised, and the collections are what it left. *)
ParseConfig(r, old) ==
  LET c == ParseSection(r, "characters")
      l == ParseSection(r, "locations")
      b == ParseSection(r, "books")
  IN IF ~c.ok THEN [old EXCEPT !.ok = FALSE, !.characters = c.val]
     ELSE IF ~l.ok
     THEN [old EXCEPT !.ok = FALSE, !.characters = c.val, !.locations = l.val]
     ELSE IF ~b.ok
     THEN [old EXCEPT !.ok = FALSE, !.characters = c.val, !.locations = l.val,
                      !.books = b.val]
     ELSE LET img == NodeGet(r, "image_settings", D(<<>>))
          IN [ok |-> IsDict(img),
              characters |-> c.val, locations |-> l.val, books |-> b.val,
              style_presets |-> NodeGet(r, "style_presets", D(<<>>)),
              prompt_templates |-> NodeGet(r, "prompt_templates", D(<<>>)),
              image_settings |-> IF IsDict(img) THEN ImageSettingsFrom(img)
                                 ELSE old.image_settings]

(* The typed state as one record *)
Typed ==
  [ok |-> TRUE, characters |-> characters, locations |-> locations, books |-> books,
   style_presets |-> style_presets, prompt_templates |-> prompt_templates,
   image_settings |-> image_settings]

SetTyped(t) ==
  /\ characters' = t.characters
  /\ locations' = t.locations
  /\ books' = t.books
  /\ style_presets' = t.style_presets
  /\ prompt_templates' = t.prompt_templates
  /\ image_settings' = t.image_settings


-----------------------------------------------------------------------------
(* Configuration documents the store is loaded from (inputs) *)

Tpl(names) == S(names)
Field(name) == <<"{", name, "}">>

CharData(name, desc) ==
  D(<< <<"name", S(<<name>>)>>, <<"role", S(<<"core">>)>>,
       <<"description", S(<<desc>>)>>, <<"virtues", L(<<S(<<"courage">>)>>)>> >>)

SceneData(page, prompt) ==
  D(<< <<"page", N(page)>>, <<"prompt", S(<<prompt>>)>> >>)

BaseStyles ==
  D(<< <<"pixar", D(<< <<"name", S(<<"Pixar">>)>>, <<"prompt", S(<<"pixar look">>)>> >>)>>,
       <<"watercolor", D(<< <<"name", S(<<"Watercolor">>)>>,
                            <<"prompt", S(<<"soft watercolor">>)>> >>)>> >>)

BaseTemplates ==
  D(<< <<"hero_shot", Tpl(Field("character_name") \o <<" in ">> \o Field("style_prompt"))>>,
       <<"group_shot", Tpl(Field("character_list") \o <<" at ">>
                           \o Field("location_description"))>>,
       <<"scene", Tpl(Field("scene_description") \o <<" with ">>
                      \o Field("character_list") \o <<" mood ">> \o Field("mood"))>>,
       <<"cover", Tpl(Field("book_title") \o <<" cover, ">> \o Field("style_prompt"))>>,
       <<"consistency_suffix", Tpl(<<"keep the characters consistent">>)>> >>)

BaseBooks ==
  D(<< <<"book_01",
         D(<< <<"title", S(<<"The Brave Map">>)>>, <<"book_number", N(1)>>,
              <<"virtue", S(<<"courage">>)>>,
              <<"featured_character", S(<<"barnaby_bunny">>)>>,
              <<"supporting_characters", L(<<S(<<"gus_goat">>)>>)>>,
              <<"primary_location", S(<<"barn">>)>>,
              <<"scenes", L(<<SceneData(1, "finds a map"),
                              SceneData(2, "crosses the creek")>>)>> >>)>>,
       <<"book_02",
         D(<< <<"title", S(<<"The Quiet Pond">>)>>, <<"book_number", N(2)>>,
              <<"featured_character", S(<<"barnaby_bunny">>)>> >>)>>,
       <<"book_03",
         D(<< <<"title", S(<<"The Lost Bell">>)>>, <<"book_number", N(3)>>,
              <<"featured_character", S(<<"old_owl">>)>>,
              <<"scenes", L(<<SceneData(1, "hears a bell")>>)>> >>)>> >>)

BaseConfig ==
  D(<< <<"api", D(<< <<"model", S(<<"fal-ai/flux-pro/kontext">>)>>,
                     <<"cost_per_image", N(4)>> >>)>>,
       <<"generation_settings", D(<< <<"rate_limit_delay_seconds", N(1)>>,
                                     <<"save_prompts", B(TRUE)>> >>)>>,
       <<"active_style", S(<<"pixar">>)>>,
       <<"style_presets", BaseStyles>>,
       <<"prompt_templates", BaseTemplates>>,
       <<"characters", D(<< <<"barnaby_bunny", CharData("Barnaby", "a brave bunny")>> >>)>>,
       <<"locations", D(<< <<"barn", D(<< <<"name", S(<<"Barn">>)>>,
                                          <<"description", S(<<"a red barn">>)>> >>)>> >>)>>,
       <<"books", BaseBooks>> >>)

(* A document with no active_style, style_presets or templates *)
BareConfig ==
  D(<< <<"characters", D(<< <<"barnaby_bunny", CharData("Barnaby", "a brave bunny")>>,
                            <<"gus_goat", CharData("Gus", "a calm goat")>> >>)>>,
       <<"books", BaseBooks>> >>)

File(toks) == [exists |-> TRUE, toks |-> toks]
NoFile == [exists |-> FALSE, toks |-> <<>>]

StoreDocs == {BaseConfig, BareConfig}

-----------------------------------------------------------------------------
(* The store's accessors *)

(* ids are single atoms: the key a str names *)
AsKey(x) == IF x.v = <<>> THEN "" ELSE x.v[1]

active_style_of(r) == AsKey(NodeGet(r, "active_style", S(<<"default">>)))
active_style == active_style_of(raw)

style_prompt_of(r, sp) ==
  NodeGet(NodeGet(sp, active_style_of(r), D(<<>>)), "prompt", S(<<>>)).v
active_style_prompt == style_prompt_of(raw, style_presets)

api_config == NodeGet(raw, "api", D(<<>>))
cost_per_image == NodeGet(api_config, "cost_per_image", N(DefaultCost)).v
generation_settings == NodeGet(raw, "generation_settings", D(<<>>))
paths == NodeGet(raw, "paths", D(<<>>))

get_character(char_id) == Get(characters, char_id, None)
get_location(loc_id) == Get(locations, loc_id, None)
get_book(book_id) == Get(books, book_id, None)
list_character_ids == Keys(characters)
get_prompt_template(name) == NodeGet(prompt_templates, name, S(<<>>)).v


-----------------------------------------------------------------------------
(* str.format and str.replace on atom sequences.  kw is the ordered
   sequence of <<name, atoms>> keyword arguments. *)

(* The scan of str.format from atom i: "{{" and "}}" are escapes, "{" name "}"
   is a field (KeyError when the name is no keyword), "{" "}" is a positional
   field (IndexError, no positional arguments are passed), any other brace is
   a ValueError.  The first error met, left to right, is the one raised. *)
RECURSIVE FormatFrom(_, _, _, _)
FormatFrom(t, i, kw, acc) ==
  IF i > Len(t) THEN [st |-> "ok", out |-> acc]
  ELSE IF t[i] = "{"
  THEN IF i + 1 <= Len(t) /\ t[i + 1] = "{"
       THEN FormatFrom(t, i + 2, kw, Append(acc, "{"))
       ELSE IF i + 1 <= Len(t) /\ t[i + 1] = "}"
       THEN [st |-> "IndexError", out |-> acc]
       ELSE IF i + 2 <= Len(t) /\ t[i + 2] = "}"
       THEN IF Has(kw, t[i + 1])
            THEN FormatFrom(t, i + 3, kw, acc \o At(kw, t[i + 1]))
            ELSE [st |-> "KeyError", out |-> acc]
       ELSE [st |-> "ValueError", out |-> acc]
  ELSE IF t[i] = "}"
  THEN IF i + 1 <= Len(t) /\ t[i + 1] = "}"
       THEN FormatFrom(t, i + 2, kw, Append(acc, "}"))
       ELSE [st |-> "ValueError", out |-> acc]
  ELSE FormatFrom(t, i + 1, kw, Append(acc, t[i]))

Format(t, kw) == FormatFrom(t, 1, kw, <<>>)

(* t.replace("{" + key + "}", value): every occurrence, left to right *)
RECURSIVE Replace(_, _, _)
Replace(t, key, value) ==
  IF t = <<>> THEN <<>>
  ELSE IF Len(t) >= 3 /\ t[1] = "{" /\ t[2] = key /\ t[3] = "}"
  THEN value \o Replace(SubSeq(t, 4, Len(t)), key, value)
  ELSE <<t[1]>> \o Replace(Tail(t), key, value)

RECURSIVE ReplaceAll(_, _)
ReplaceAll(t, kw) ==
  IF kw = <<>> THEN t ELSE ReplaceAll(Replace(t, kw[1][1], kw[1][2]), Tail(kw))

(* build_prompt: [st, out]; st is "ok" or the
   exception that leaves build_prompt (only KeyError is caught). *)
BuildPromptWith(template, kwargs, style_prompt) ==
  IF template = <<>> THEN [st |-> "ok", out |-> <<>>]
  ELSE LET kw == IF Has(kwargs, "style_prompt") THEN kwargs
                 ELSE Append(kwargs, <<"style_prompt", style_prompt>>)
           f == Format(template, kw)
       IN IF f.st = "KeyError" THEN [st |-> "ok", out |-> ReplaceAll(template, kw)]
          ELSE f

build_prompt(template_name, kwargs) ==
  BuildPromptWith(get_prompt_template(template_name), kwargs, active_style_prompt)

-----------------------------------------------------------------------------
(* pathlib on atom sequences: "/" is an atom of its own *)

IsAbsolute(path) == path # <<>> /\ path[1] = "/"
Join(a, b) == IF IsAbsolute(b) THEN b ELSE a \o <<"/">> \o b

RECURSIVE LastSlash(_, _)
LastSlash(path, i) ==
  IF i = 0 THEN 0 ELSE IF path[i] = "/" THEN i ELSE LastSlash(path, i - 1)
Parent(path) ==
  LET k == LastSlash(path, Len(path))
  IN IF k <= 1 THEN <<".">> ELSE SubSeq(path, 1, k - 1)

(* Path.with_suffix(".txt") of a file name that ends in its suffix atom *)
WithSuffixTxt(path) == SubSeq(path, 1, Len(path) - 1) \o <<".txt">>

(* paths.get(key, default) as a Path *)
PathOf(key, default) == NodeGet(paths, key, S(default)).v

(* f"{n:02d}" *)
Fmt02(n) == IF n >= 0 /\ n < 10 THEN <<"0", ToString(n)>> ELSE <<ToString(n)>>

-----------------------------------------------------------------------------
(* The generation engine: GenerationResult, _upload_image, and the part the
   four operations share (their try block).  An operation is computed from
   the engine state es = [uploaded, nupload], the existing files fs and the
   environment env = [fault, now]: fault names the external step that fails
   if it is reached, now is the clock's text.  It yields
   [st, res, es, tr]: st is "returned" or "raised", res the GenerationResult
   (or the exception's name), tr the external events in order. *)

Truthy(x) == x # None /\ x.v # <<>>

Faults == {"none", "upload", "synth", "download", "write", "prompt"}

Ev(e, a, ok) == [e |-> e, a |-> a, ok |-> ok]

(* GenerationResult(success=False, error=..., prompt_used=...): the other
   fields keep the dataclass defaults, cost included *)
Failed(err, prompt) ==
  [success |-> FALSE, output_path |-> None, image_url |-> None,
   prompt_used |-> prompt, error |-> S(err), cost |-> DefaultCost, metadata |-> <<>>]

(* a successful result that keeps the dataclass default of the cost *)
SucceededDefaultCost(saved_path, image_url, prompt, cost, metadata) ==
  [success |-> TRUE, output_path |-> saved_path, image_url |-> S(image_url),
   prompt_used |-> prompt, error |-> None, cost |-> DefaultCost, metadata |-> metadata]

Succeeded(saved_path, image_url, prompt, cost, metadata) ==
  [success |-> TRUE, output_path |-> saved_path, image_url |-> S(image_url),
   prompt_used |-> prompt, error |-> None, cost |-> cost, metadata |-> metadata]

Returned(res, es, tr) == [st |-> "returned", res |-> res, es |-> es, tr |-> tr]
Raised(exc, es, tr) == [st |-> "raised", res |-> exc, es |-> es, tr |-> tr]

StartsWithHttp(path) == path # <<>> /\ path[1] = "http"

UploadUrl(n) == <<"http", "s://", "fal.media/files/", ToString(n)>>
ImageUrl == <<"http", "s://", "fal.media/out/image.jpg">>

(* _upload_image(image_path, force): [ok, url, err, es, tr].  Path("") is
   the current directory: it exists, and open() on it fails. *)
UploadImageNoCache(es, fs, image_path, force, fault) ==
  IF StartsWithHttp(image_path)
  THEN [ok |-> TRUE, url |-> image_path, err |-> <<>>, exc |-> "", es |-> es, tr |-> <<>>]
  ELSE IF image_path = <<>>
  THEN [ok |-> FALSE, url |-> <<>>, err |-> <<"Is a directory: '.'">>,
        exc |-> "IsADirectoryError", es |-> es, tr |-> <<>>]
  ELSE IF image_path \notin fs
  THEN [ok |-> FALSE, url |-> <<>>, err |-> <<"Image not found: ">> \o image_path,
        exc |-> "FileNotFoundError", es |-> es, tr |-> <<>>]
  ELSE IF fault = "upload"
  THEN [ok |-> FALSE, url |-> <<>>, err |-> <<"upload failed">>, exc |-> "Exception",
        es |-> [es EXCEPT !.nupload = @ + 1],
        tr |-> <<Ev("upload", image_path, FALSE)>>]
  ELSE LET url == UploadUrl(es.nupload + 1)
       IN [ok |-> TRUE, url |-> url, err |-> <<>>, exc |-> "",
           es |-> [uploaded |-> (image_path :> url) @@ es.uploaded,
                   nupload |-> es.nupload + 1],
           tr |-> <<Ev("upload", image_path, TRUE)>>]

UploadImageNoExistsCheck(es, fs, image_path, force, fault) ==
  IF StartsWithHttp(image_path)
  THEN [ok |-> TRUE, url |-> image_path, err |-> <<>>, exc |-> "", es |-> es, tr |-> <<>>]
  ELSE IF ~force /\ image_path \in DOMAIN es.uploaded
  THEN [ok |-> TRUE, url |-> es.uploaded[image_path], err |-> <<>>, exc |-> "", es |-> es,
        tr |-> <<>>]
  ELSE IF image_path = <<>>
  THEN [ok |-> FALSE, url |-> <<>>, err |-> <<"Is a directory: '.'">>,
        exc |-> "IsADirectoryError", es |-> es, tr |-> <<>>]
  ELSE IF fault = "upload"
  THEN [ok |-> FALSE, url |-> <<>>, err |-> <<"upload failed">>, exc |-> "Exception",
        es |-> [es EXCEPT !.nupload = @ + 1],
        tr |-> <<Ev("upload", image_path, FALSE)>>]
  ELSE LET url == UploadUrl(es.nupload + 1)
       IN [ok |-> TRUE, url |-> url, err |-> <<>>, exc |-> "",
           es |-> [uploaded |-> (image_path :> url) @@ es.uploaded,
                   nupload |-> es.nupload + 1],
           tr |-> <<Ev("upload", image_path, TRUE)>>]

(* _upload_image without the test for a URL *)
UploadImageNoUrlTest(es, fs, image_path, force, fault) ==
  IF ~force /\ image_path \in DOMAIN es.uploaded
  THEN [ok |-> TRUE, url |-> es.uploaded[image_path], err |-> <<>>, exc |-> "", es |-> es,
        tr |-> <<>>]
  ELSE IF image_path = <<>>
  THEN [ok |-> FALSE, url |-> <<>>, err |-> <<"Is a directory: '.'">>,
        exc |-> "IsADirectoryError", es |-> es, tr |-> <<>>]
  ELSE IF image_path \notin fs
  THEN [ok |-> FALSE, url |-> <<>>, err |-> <<"Image not found: ">> \o image_path,
        exc |-> "FileNotFoundError", es |-> es, tr |-> <<>>]
  ELSE IF fault = "upload"
  THEN [ok |-> FALSE, url |-> <<>>, err |-> <<"upload failed">>, exc |-> "Exception",
        es |-> [es EXCEPT !.nupload = @ + 1],
        tr |-> <<Ev("upload", image_path, FALSE)>>]
  ELSE LET url == UploadUrl(es.nupload + 1)
       IN [ok |-> TRUE, url |-> url, err |-> <<>>, exc |-> "",
           es |-> [uploaded |-> (image_path :> url) @@ es.uploaded,
                   nupload |-> es.nupload + 1],
           tr |-> <<Ev("upload", image_path, TRUE)>>]

UploadImageCachesFailure(es, fs, image_path, force, fault) ==
  IF StartsWithHttp(image_path)
  THEN [ok |-> TRUE, url |-> image_path, err |-> <<>>, exc |-> "", es |-> es, tr |-> <<>>]
  ELSE IF ~force /\ image_path \in DOMAIN es.uploaded
  THEN [ok |-> TRUE, url |-> es.uploaded[image_path], err |-> <<>>, exc |-> "", es |-> es,
        tr |-> <<>>]
  ELSE IF image_path = <<>>
  THEN [ok |-> FALSE, url |-> <<>>, err |-> <<"Is a directory: '.'">>,
        exc |-> "IsADirectoryError", es |-> es, tr |-> <<>>]
  ELSE IF image_path \notin fs
  THEN [ok |-> FALSE, url |-> <<>>, err |-> <<"Image not found: ">> \o image_path,
        exc |-> "FileNotFoundError", es |-> es, tr |-> <<>>]
  ELSE LET url == IF fault = "upload" THEN <<>> ELSE UploadUrl(es.nupload + 1)
       IN [ok |-> fault # "upload", url |-> url,
           err |-> IF fault = "upload" THEN <<"upload failed">> ELSE <<>>,
           exc |-> IF fault = "upload" THEN "Exception" ELSE "",
           es |-> [uploaded |-> (image_path :> url) @@ es.uploaded,
                   nupload |-> es.nupload + 1],
           tr |-> <<Ev("upload", image_path, fault # "upload")>>]

UploadImage(es, fs, image_path, force, fault) ==
  IF StartsWithHttp(image_path)
  THEN [ok |-> TRUE, url |-> image_path, err |-> <<>>, exc |-> "", es |-> es, tr |-> <<>>]
  ELSE IF ~force /\ image_path \in DOMAIN es.uploaded
  THEN [ok |-> TRUE, url |-> es.uploaded[image_path], err |-> <<>>, exc |-> "", es |-> es,
        tr |-> <<>>]
  ELSE IF image_path = <<>>
  THEN [ok |-> FALSE, url |-> <<>>, err |-> <<"Is a directory: '.'">>,
        exc |-> "IsADirectoryError", es |-> es, tr |-> <<>>]
  ELSE IF image_path \notin fs
  THEN [ok |-> FALSE, url |-> <<>>, err |-> <<"Image not found: ">> \o image_path,
        exc |-> "FileNotFoundError", es |-> es, tr |-> <<>>]
  ELSE IF fault = "upload"
  THEN [ok |-> FALSE, url |-> <<>>, err |-> <<"upload failed">>, exc |-> "Exception",
        es |-> [es EXCEPT !.nupload = @ + 1],
        tr |-> <<Ev("upload", image_path, FALSE)>>]
  ELSE LET url == UploadUrl(es.nupload + 1)
       IN [ok |-> TRUE, url |-> url, err |-> <<>>, exc |-> "",
           es |-> [uploaded |-> (image_path :> url) @@ es.uploaded,
                   nupload |-> es.nupload + 1],
           tr |-> <<Ev("upload", image_path, TRUE)>>]

(* _save_image writing the file without having downloaded the image *)
SaveImageNoDownload(output_path, prompt, save_prompts, fault) ==
  LET pre == <<Ev("mkdir", Parent(output_path), TRUE)>>
  IN IF fault = "write"
     THEN [ok |-> FALSE, err |-> <<"write failed">>,
           tr |-> Append(pre, Ev("write", output_path, FALSE))]
     ELSE [ok |-> TRUE, err |-> <<>>, tr |-> Append(pre, Ev("write", output_path, TRUE))]

(* _save_image(image_url, output_path, prompt=prompt): [ok, err, tr] *)
SaveImage(output_path, prompt, save_prompts, fault) ==
  IF fault = "download"
  THEN [ok |-> FALSE, err |-> <<"download failed">>,
        tr |-> <<Ev("download", ImageUrl, FALSE)>>]
  ELSE LET pre == <<Ev("download", ImageUrl, TRUE), Ev("mkdir", Parent(output_path), TRUE)>>
       IN IF fault = "write"
          THEN [ok |-> FALSE, err |-> <<"write failed">>,
                tr |-> Append(pre, Ev("write", output_path, FALSE))]
          ELSE LET img == Append(pre, Ev("write", output_path, TRUE))
               IN IF prompt # <<>> /\ save_prompts
                  THEN IF fault = "prompt"
                       THEN [ok |-> FALSE, err |-> <<"write failed">>,
                             tr |-> Append(img, Ev("write", WithSuffixTxt(output_path), FALSE))]
                       ELSE [ok |-> TRUE, err |-> <<>>,
                             tr |-> Append(img, Ev("write", WithSuffixTxt(output_path), TRUE))]
                  ELSE [ok |-> TRUE, err |-> <<>>, tr |-> img]

(* The try block of the four operations.  ref is the reference_image argument
   (None or a str); always is TRUE where the upload is unconditional (scene,
   cover); dir and filename are where the image goes when save_to_disk. *)
(* the try block calling the synthesis although the reference failed *)
TryGenerateSynthesisAnyway(es, fs, std, prompt, ref, always, dir, filename, metadata, cost, save_prompts, env) ==
  LET noup == [ok |-> TRUE, url |-> <<>>, err |-> <<>>, exc |-> "", es |-> es, tr |-> <<>>]
      up == IF always \/ Truthy(ref)
            THEN IF ref = None
                 THEN [noup EXCEPT !.ok = FALSE,
                         !.err = <<"'NoneType' object has no attribute 'startswith'">>]
                 ELSE UploadImage(es, fs, ref.v, FALSE, env.fault)
            ELSE noup
  IN IF ~up.ok THEN Returned(Failed(up.err, prompt), up.es,
                             Append(up.tr, Ev("synth", <<>>, TRUE)))
     ELSE IF env.fault = "synth"
     THEN Returned(Failed(<<"synthesis failed">>, prompt), up.es,
                   Append(up.tr, Ev("synth", up.url, FALSE)))
     ELSE LET tr1 == Append(up.tr, Ev("synth", up.url, TRUE))
          IN IF ~std
             THEN Returned(Succeeded(None, ImageUrl, prompt, cost, metadata), up.es, tr1)
             ELSE LET output_path == Join(dir, filename)
                      sv == SaveImage(output_path, prompt, save_prompts, env.fault)
                      tr2 == Append(tr1, Ev("mkdir", dir, TRUE)) \o sv.tr
                  IN IF sv.ok
                     THEN Returned(Succeeded(S(output_path), ImageUrl, prompt, cost, metadata),
                                   up.es, tr2)
                     ELSE Returned(Failed(sv.err, prompt), up.es, tr2)

TryGenerate(es, fs, std, prompt, ref, always, dir, filename, metadata, cost, save_prompts, env) ==
  LET noup == [ok |-> TRUE, url |-> <<>>, err |-> <<>>, exc |-> "", es |-> es, tr |-> <<>>]
      up == IF always \/ Truthy(ref)
            THEN IF ref = None
                 THEN [noup EXCEPT !.ok = FALSE,
                         !.err = <<"'NoneType' object has no attribute 'startswith'">>]
                 ELSE UploadImage(es, fs, ref.v, FALSE, env.fault)
            ELSE noup
  IN IF ~up.ok THEN Returned(Failed(up.err, prompt), up.es, up.tr)
     ELSE IF env.fault = "synth"
     THEN Returned(Failed(<<"synthesis failed">>, prompt), up.es,
                   Append(up.tr, Ev("synth", up.url, FALSE)))
     ELSE LET tr1 == Append(up.tr, Ev("synth", up.url, TRUE))
          IN IF ~std
             THEN Returned(Succeeded(None, ImageUrl, prompt, cost, metadata), up.es, tr1)
             ELSE LET output_path == Join(dir, filename)
                      sv == SaveImage(output_path, prompt, save_prompts, env.fault)
                      tr2 == Append(tr1, Ev("mkdir", dir, TRUE)) \o sv.tr
                  IN IF sv.ok
                     THEN Returned(Succeeded(S(output_path), ImageUrl, prompt, cost, metadata),
                                   up.es, tr2)
                     ELSE Returned(Failed(sv.err, prompt), up.es, tr2)

-----------------------------------------------------------------------------
(* The four generation operations *)

save_prompts == NodeGet(generation_settings, "save_prompts", B(TRUE)).v

(* ", ".join(...) and "\n".join(...) *)
RECURSIVE JoinWith(_, _)
JoinWith(parts, sep) ==
  IF parts = <<>> THEN <<>>
  ELSE IF Len(parts) = 1 THEN parts[1]
  ELSE parts[1] \o <<sep>> \o JoinWith(Tail(parts), sep)

(* the characters of a list of ids taken in the store's order *)
KnownCharactersStoreOrder(ids) ==
  LET known == SelectSeq(list_character_ids, LAMBDA c : \E n \in 1..Len(ids) : ids[n] = c)
  IN [i \in 1..Len(known) |-> get_character(known[i])]

(* the characters of a list of ids that the store knows, in the ids' order *)
KnownCharacters(ids) ==
  LET known == SelectSeq(ids, LAMBDA c : get_character(c) # None)
  IN [i \in 1..Len(known) |-> get_character(known[i])]

Names(chars) == [i \in 1..Len(chars) |-> chars[i].name.v]

(* get_character_description_block(char_ids) *)
DescriptionBlock(ids) ==
  LET chars == KnownCharacters(ids)
  IN JoinWith([i \in 1..Len(chars) |->
                 chars[i].name.v \o <<": ">> \o chars[i].description.v], "\n")

(* the description of an optional location, or the default text *)
LocationDesc(location_id, default) ==
  IF Truthy(location_id) /\ get_location(AsKey(location_id)) # None
  THEN get_location(AsKey(location_id)).description.v
  ELSE default

(* output_name + ".jpg", or the default file name *)
FileName(output_name, default) ==
  IF Truthy(output_name) THEN output_name.v \o <<".jpg">> ELSE default

(* generate_hero_shot with the lookup's failure leaving as an exception *)
GenerateHeroShotUnchecked(es, fs, std, character_id, reference_image, location_id, custom_prompt, output_name, env) ==
  LET character == get_character(character_id)
  IN IF character = None
     THEN Raised("AttributeError", es, <<>>)
     ELSE LET location_desc == LocationDesc(location_id, <<"soft, neutral background">>)
              bp == IF Truthy(custom_prompt) THEN [st |-> "ok", out |-> custom_prompt.v]
                    ELSE build_prompt("hero_shot",
                           << <<"character_name", character.name.v>>,
                              <<"character_description", character.description.v>>,
                              <<"location", location_desc>>,
                              <<"style_prompt", active_style_prompt>> >>)
          IN IF bp.st # "ok" THEN Raised(bp.st, es, <<>>)
             ELSE TryGenerate(es, fs, std, bp.out, reference_image, FALSE,
                    Join(PathOf("character_references",
                                <<"reference_images", "/", "characters">>),
                         <<character_id>>),
                    FileName(output_name, <<"hero_", env.now, ".jpg">>),
                    << <<"character_id", S(<<character_id>>)>>,
                       <<"character_name", character.name>>,
                       <<"type", S(<<"hero_shot">>)>> >>,
                    cost_per_image, save_prompts, env)

GenerateHeroShot(es, fs, std, character_id, reference_image, location_id, custom_prompt, output_name, env) ==
  LET character == get_character(character_id)
  IN IF character = None
     THEN Returned(Failed(<<"Character not found: ", character_id>>, <<>>), es, <<>>)
     ELSE LET location_desc == LocationDesc(location_id, <<"soft, neutral background">>)
              bp == IF Truthy(custom_prompt) THEN [st |-> "ok", out |-> custom_prompt.v]
                    ELSE build_prompt("hero_shot",
                           << <<"character_name", character.name.v>>,
                              <<"character_description", character.description.v>>,
                              <<"location", location_desc>>,
                              <<"style_prompt", active_style_prompt>> >>)
          IN IF bp.st # "ok" THEN Raised(bp.st, es, <<>>)
             ELSE TryGenerate(es, fs, std, bp.out, reference_image, FALSE,
                    Join(PathOf("character_references",
                                <<"reference_images", "/", "characters">>),
                         <<character_id>>),
                    FileName(output_name, <<"hero_", env.now, ".jpg">>),
                    << <<"character_id", S(<<character_id>>)>>,
                       <<"character_name", character.name>>,
                       <<"type", S(<<"hero_shot">>)>> >>,
                    cost_per_image, save_prompts, env)

(* "_".join([c[:3] for c in character_ids[:4]]); the cut c[:3] is kept
   symbolic *)
Abbrev(ids) ==
  JoinWith([i \in 1..(IF Len(ids) < 4 THEN Len(ids) ELSE 4) |-> <<ids[i], "[:3]">>], "_")

IdList(ids) == L([i \in 1..Len(ids) |-> S(<<ids[i]>>)])

GenerateGroupShot(es, fs, std, character_ids, reference_image, location_id, custom_prompt, output_name, env) ==
  LET chars == KnownCharacters(character_ids)
  IN IF chars = <<>>
     THEN Returned(Failed(<<"No valid characters found">>, <<>>), es, <<>>)
     ELSE LET char_list == JoinWith(Names(chars), ", ")
              char_descriptions ==
                JoinWith([i \in 1..Len(chars) |->
                            <<"- ">> \o chars[i].name.v \o <<": ">>
                            \o chars[i].description.v], "\n")
              location_desc ==
                LocationDesc(location_id, <<"beautiful farm setting with rolling hills">>)
              bp == IF Truthy(custom_prompt) THEN [st |-> "ok", out |-> custom_prompt.v]
                    ELSE build_prompt("group_shot",
                           << <<"character_list", char_list>>,
                              <<"character_descriptions", char_descriptions>>,
                              <<"location_description", location_desc>>,
                              <<"style_prompt", active_style_prompt>> >>)
          IN IF bp.st # "ok" THEN Raised(bp.st, es, <<>>)
             ELSE TryGenerate(es, fs, std, bp.out, reference_image, FALSE,
                    PathOf("group_shots", <<"reference_images", "/", "group_shots">>),
                    FileName(output_name,
                             <<"group_">> \o Abbrev(character_ids) \o <<"_", env.now, ".jpg">>),
                    << <<"character_ids", IdList(character_ids)>>,
                       <<"character_names", L([i \in 1..Len(chars) |-> chars[i].name])>>,
                       <<"type", S(<<"group_shot">>)>> >>,
                    cost_per_image, save_prompts, env)

(* scene_prompt[:25].replace(" ", "_").replace(",", ""), kept symbolic *)
SafePrompt(scene_prompt) == scene_prompt \o <<"[:25]">>

GenerateScene(es, fs, std, scene_prompt, character_ids, reference_image, location_id, output_name, additional_notes, env) ==
  LET chars == KnownCharacters(character_ids)
      bp == build_prompt("scene",
              << <<"scene_description", scene_prompt>>,
                 <<"character_list", JoinWith(Names(chars), ", ")>>,
                 <<"character_descriptions", DescriptionBlock(character_ids)>>,
                 <<"location_description", LocationDesc(location_id, <<>>)>>,
                 <<"additional_notes", additional_notes>>,
                 <<"style_prompt", active_style_prompt>> >>)
      consistency == get_prompt_template("consistency_suffix")
  IN IF bp.st # "ok" THEN Raised(bp.st, es, <<>>)
     ELSE TryGenerate(es, fs, std,
            IF consistency # <<>> THEN bp.out \o <<"\n\n">> \o consistency ELSE bp.out,
            reference_image, TRUE,
            PathOf("output", <<"output">>),
            FileName(output_name,
                     <<"scene_">> \o SafePrompt(scene_prompt) \o <<"_", env.now, ".jpg">>),
            << <<"scene_prompt", S(scene_prompt)>>,
               <<"character_ids", IdList(character_ids)>>,
               <<"type", S(<<"scene">>)>> >>,
            cost_per_image, save_prompts, env)

(* generate_cover reporting a missing featured character as a missing book *)
GenerateCoverOneError(es, fs, std, book_id, reference_image, custom_prompt, output_name, env) ==
  LET book == get_book(book_id)
  IN IF book = None
     THEN Returned(Failed(<<"Book not found: ", book_id>>, <<>>), es, <<>>)
     ELSE LET featured == get_character(AsKey(book.featured_character))
          IN IF featured = None
             THEN Returned(Failed(<<"Book not found: ", book_id>>, <<>>), es, <<>>)
             ELSE LET location_desc ==
                        LocationDesc(book.primary_location, <<"beautiful farm setting">>)
                      bp == IF Truthy(custom_prompt)
                            THEN [st |-> "ok", out |-> custom_prompt.v]
                            ELSE build_prompt("cover",
                                   << <<"book_title", book.title.v>>,
                                      <<"virtue", book.virtue.v>>,
                                      <<"featured_character_name", featured.name.v>>,
                                      <<"featured_character_description",
                                        featured.description.v>>,
                                      <<"location_description", location_desc>>,
                                      <<"style_prompt", active_style_prompt>> >>)
                  IN IF bp.st # "ok" THEN Raised(bp.st, es, <<>>)
                     ELSE TryGenerate(es, fs, std, bp.out, reference_image, TRUE,
                            PathOf("covers_output", <<"output", "/", "covers">>),
                            FileName(output_name, <<"cover_", book_id, ".jpg">>),
                            << <<"book_id", S(<<book_id>>)>>,
                               <<"book_title", book.title>>,
                               <<"type", S(<<"cover">>)>> >>,
                            cost_per_image, save_prompts, env)

GenerateCover(es, fs, std, book_id, reference_image, custom_prompt, output_name, env) ==
  LET book == get_book(book_id)
  IN IF book = None
     THEN Returned(Failed(<<"Book not found: ", book_id>>, <<>>), es, <<>>)
     ELSE LET featured == get_character(AsKey(book.featured_character))
          IN IF featured = None
             THEN Returned(Failed(<<"Featured character not found: ">>
                                  \o book.featured_character.v, <<>>), es, <<>>)
             ELSE LET location_desc ==
                        LocationDesc(book.primary_location, <<"beautiful farm setting">>)
                      bp == IF Truthy(custom_prompt)
                            THEN [st |-> "ok", out |-> custom_prompt.v]
                            ELSE build_prompt("cover",
                                   << <<"book_title", book.title.v>>,
                                      <<"virtue", book.virtue.v>>,
                                      <<"featured_character_name", featured.name.v>>,
                                      <<"featured_character_description",
                                        featured.description.v>>,
                                      <<"location_description", location_desc>>,
                                      <<"style_prompt", active_style_prompt>> >>)
                  IN IF bp.st # "ok" THEN Raised(bp.st, es, <<>>)
                     ELSE TryGenerate(es, fs, std, bp.out, reference_image, TRUE,
                            PathOf("covers_output", <<"output", "/", "covers">>),
                            FileName(output_name, <<"cover_", book_id, ".jpg">>),
                            << <<"book_id", S(<<book_id>>)>>,
                               <<"book_title", book.title>>,
                               <<"type", S(<<"cover">>)>> >>,
                            cost_per_image, save_prompts, env)

-----------------------------------------------------------------------------
(* The store's operations *)

MaxMutations == 3

Ret(op, ok, arg) == [op |-> op, ok |-> ok, arg |-> arg]

EmptyTyped ==
  [ok |-> TRUE, characters |-> <<>>, locations |-> <<>>, books |-> <<>>,
   style_presets |-> D(<<>>), prompt_templates |-> D(<<>>),
   image_settings |-> ImageSettingsFrom(D(<<>>))]

(* load(): FileNotFoundError when the file is missing, JSONDecodeError when
   json.load fails (both before anything is assigned); else the raw config is
   replaced and parsed. *)
LoadResult(file, r, old) ==
  IF ~file.exists THEN [ok |-> FALSE, raw |-> r, typed |-> old]
  ELSE LET j == JsonLoad(file.toks)
       IN IF ~j.ok THEN [ok |-> FALSE, raw |-> r, typed |-> old]
          ELSE LET t == ParseConfig(j.node, old)
               IN [ok |-> t.ok, raw |-> j.node, typed |-> t]

Load ==
  /\ nmut < MaxMutations
  /\ LET res == LoadResult(disk, raw, Typed)
     IN /\ raw' = res.raw
        /\ SetTyped(res.typed)
        /\ ret' = Ret("load", res.ok, <<>>)
  /\ nmut' = nmut + 1
  /\ UNCHANGED disk

(* save(): json.dump of the raw config to config_path *)
IsSection(item) == item[2].t = "dict"
SaveDocSectionsOnly(r) == File(Dump(D(SelectSeq(r.v, IsSection))))
SaveDoc(r) == File(Dump(r))

Save ==
  /\ nmut < MaxMutations
  /\ disk' = SaveDoc(raw)
  /\ ret' = Ret("save", TRUE, <<>>)
  /\ nmut' = nmut + 1
  /\ UNCHANGED <<raw, characters, locations, books, style_presets,
                 prompt_templates, image_settings>>

(* The walk of set_value: absent levels are created as {} on the way down;
   a level that is no dict raises TypeError before anything is assigned. *)
RECURSIVE SetPath(_, _, _)
SetPath(node, keys, value) ==
  IF ~IsDict(node) THEN [ok |-> FALSE, node |-> node]
  ELSE IF Len(keys) = 1 THEN [ok |-> TRUE, node |-> D(Put(node.v, keys[1], value))]
  ELSE LET sub == SetPath(Get(node.v, keys[1], D(<<>>)), Tail(keys), value)
       IN IF sub.ok THEN [ok |-> TRUE, node |-> D(Put(node.v, keys[1], sub.node))]
          ELSE [ok |-> FALSE, node |-> node]

SetValue(key_path, value) ==
  /\ nmut < MaxMutations
  /\ LET w == SetPath(raw, key_path, value)
     IN IF w.ok
        THEN LET t == ParseConfig(w.node, Typed)
             IN /\ raw' = w.node
                /\ SetTyped(t)
                /\ ret' = Ret("set_value", t.ok, key_path)
        ELSE /\ ret' = Ret("set_value", FALSE, key_path)
             /\ UNCHANGED <<raw, characters, locations, books, style_presets,
                            prompt_templates, image_settings>>
  /\ nmut' = nmut + 1
  /\ UNCHANGED disk

(* set_active_style(style_name) *)
SetActiveStyleRawNoCheck(r, sp, style_name) ==
  D(Put(r.v, "active_style", S(<<style_name>>)))
SetActiveStyleRaw(r, sp, style_name) ==
  IF Has(sp.v, style_name) THEN D(Put(r.v, "active_style", S(<<style_name>>))) ELSE r

SetActiveStyleRet(sp, style_name) == Has(sp.v, style_name)

SetActiveStyle(style_name) ==
  /\ nmut < MaxMutations
  /\ raw' = SetActiveStyleRaw(raw, style_presets, style_name)
  /\ ret' = Ret("set_active_style", SetActiveStyleRet(style_presets, style_name), style_name)
  /\ nmut' = nmut + 1
  /\ UNCHANGED <<characters, locations, books, style_presets, prompt_templates,
                 image_settings, disk>>

(* raw.setdefault(section, {})[id] = data *)
SetDefaultPutReplace(r, section, id, data) ==
  D(Put(r.v, section, D(<< <<id, data>> >>)))
SetDefaultPut(r, section, id, data) ==
  D(Put(r.v, section, D(Put(NodeGet(r, section, D(<<>>)).v, id, data))))

AddCharacterRawOnly(char_id, char_data) ==
  /\ nmut < MaxMutations
  /\ raw' = SetDefaultPut(raw, "characters", char_id, char_data)
  /\ ret' = Ret("add_character", TRUE, char_id)
  /\ nmut' = nmut + 1
  /\ UNCHANGED <<characters, locations, books, style_presets, prompt_templates,
                 image_settings, disk>>

(* add_character(char_id, char_data) *)
AddCharacter(char_id, char_data) ==
  /\ nmut < MaxMutations
  /\ raw' = SetDefaultPut(raw, "characters", char_id, char_data)
  /\ characters' = Put(characters, char_id, CharacterFromDict(char_id, char_data))
  /\ ret' = Ret("add_character", TRUE, char_id)
  /\ nmut' = nmut + 1
  /\ UNCHANGED <<locations, books, style_presets, prompt_templates, image_settings, disk>>

UpdateCharacter(char_id, updates) ==
  /\ nmut < MaxMutations
  /\ LET sec == NodeGet(raw, "characters", D(<<>>))
     IN IF ~Has(sec.v, char_id)
        THEN /\ ret' = Ret("update_character", FALSE, char_id)
             /\ UNCHANGED <<raw, characters>>
        ELSE LET data == D(Update(At(sec.v, char_id).v, updates))
             IN /\ raw' = D(Put(raw.v, "characters", D(Put(sec.v, char_id, data))))
                /\ characters' = Put(characters, char_id, CharacterFromDict(char_id, data))
                /\ ret' = Ret("update_character", TRUE, char_id)
  /\ nmut' = nmut + 1
  /\ UNCHANGED <<locations, books, style_presets, prompt_templates, image_settings, disk>>

AddStylePreset(style_id, name, prompt) ==
  /\ nmut < MaxMutations
  /\ LET r == SetDefaultPut(raw, "style_presets", style_id,
                            D(<< <<"name", S(name)>>, <<"prompt", S(prompt)>> >>))
     IN /\ raw' = r
        /\ style_presets' = At(r.v, "style_presets")
  /\ ret' = Ret("add_style_preset", TRUE, style_id)
  /\ nmut' = nmut + 1
  /\ UNCHANGED <<characters, locations, books, prompt_templates, image_settings, disk>>

UpdateBookScenes(book_id, scenes) ==
  /\ nmut < MaxMutations
  /\ LET sec == NodeGet(raw, "books", D(<<>>))
     IN IF ~Has(sec.v, book_id)
        THEN /\ ret' = Ret("update_book_scenes", FALSE, book_id)
             /\ UNCHANGED <<raw, books>>
        ELSE LET data == D(Put(At(sec.v, book_id).v, "scenes", scenes))
             IN /\ raw' = D(Put(raw.v, "books", D(Put(sec.v, book_id, data))))
                /\ books' = Put(books, book_id, BookFromDict(book_id, data))
                /\ ret' = Ret("update_book_scenes", TRUE, book_id)
  /\ nmut' = nmut + 1
  /\ UNCHANGED <<characters, locations, style_presets, prompt_templates,
                 image_settings, disk>>

(* Inputs of the store's operations *)
SetValueInputs ==
  { <<<<"active_style">>, S(<<"watercolor">>)>>,
    <<<<"active_style">>, S(<<"noir">>)>>,
    <<<<"api", "cost_per_image">>, N(5)>>,
    <<<<"characters", "gus_goat", "name">>, S(<<"Gus">>)>>,
    <<<<"style_presets", "noir", "prompt">>, S(<<"film noir">>)>>,
    <<<<"characters", "barnaby_bunny", "name", "first">>, S(<<"B">>)>> }

StyleIds == {"pixar", "watercolor", "noir", "sketch"}
CharInputs ==
  { <<"gus_goat", CharData("Gus", "a calm goat")>>,
    <<"barnaby_bunny", D(<< <<"name", S(<<"Barnaby II">>)>> >>)>> }
CharUpdates ==
  { <<"barnaby_bunny", << <<"description", S(<<"a bold bunny">>)>>,
                          <<"appears_with_chime", B(TRUE)>>,
                          <<"id", S(<<"impostor">>)>> >> >>,
    <<"nobody", << <<"name", S(<<"Nobody">>)>> >> >> }
StyleInputs ==
  { <<"noir", <<"Noir">>, <<"film noir">>>>,
    <<"pixar", <<"Pixar">>, <<"new pixar look">>>> }
SceneInputs ==
  { <<"book_02", L(<<SceneData(1, "sits by the pond")>>)>>,
    <<"book_09", L(<<>>)>> }

(* the store after ConfigManager(config_path) on a file holding doc *)
LoadedFrom(doc) ==
    LET res == LoadResult(SaveDoc(doc), D(<<>>), EmptyTyped)
    IN /\ disk = SaveDoc(doc)
       /\ raw = res.raw
       /\ characters = res.typed.characters
       /\ locations = res.typed.locations
       /\ books = res.typed.books
       /\ style_presets = res.typed.style_presets
       /\ prompt_templates = res.typed.prompt_templates
       /\ image_settings = res.typed.image_settings
       /\ ret = Ret("load", res.ok, <<>>)
       /\ nmut = 0

-----------------------------------------------------------------------------
(* The engine's calls.  call = [kind, status, args, items, i, results, itemtr,
   trace, exc]: status is "idle", "running", "returned" or "raised"; items are
   the batch's items and i the next one; results the GenerationResults so
   far; itemtr the external events of each generated item; trace the batch's
   own events (mkdir, gen, sleep). *)

MaxCalls == 2

NoArgs ==
  [ref |-> None, force |-> FALSE, include_cover |-> FALSE, id |-> "", scenes |-> <<>>,
   range |-> None, character_ids |-> None]

Call(kind, status, args, items, i, results, itemtr, trace, exc) ==
  [kind |-> kind, status |-> status, args |-> args, items |-> items, i |-> i,
   results |-> results, itemtr |-> itemtr, trace |-> trace, exc |-> exc]

IdleCall == Call("none", "idle", NoArgs, <<>>, 1, <<>>, <<>>, <<>>, "")

ES == [uploaded |-> uploaded, nupload |-> nupload]

SetES(es) ==
  /\ uploaded' = es.uploaded
  /\ nupload' = es.nupload

CanCall == ncalls < MaxCalls /\ call.status # "running"

(* A single operation, called from outside: r is what it computed *)
Single(kind, args, r) ==
  /\ CanCall
  /\ SetES(r.es)
  /\ call' = IF r.st = "returned"
             THEN Call(kind, "returned", args, <<>>, 1, <<r.res>>, <<r.tr>>, <<>>, "")
             ELSE Call(kind, "raised", args, <<>>, 1, <<>>, <<r.tr>>, <<>>, r.res)
  /\ ncalls' = ncalls + 1
  /\ UNCHANGED <<save_to_disk, files>>

Env(fault, now) == [fault |-> fault, now |-> now]
Clock == {"120000"}

CallHero(character_id, ref, fault, now) ==
  Single("hero", [NoArgs EXCEPT !.ref = ref, !.id = character_id],
         GenerateHeroShot(ES, files, save_to_disk, character_id, ref, None, None, None,
                          Env(fault, now)))

CallGroup(character_ids, ref, fault, now) ==
  Single("group", [NoArgs EXCEPT !.ref = ref, !.character_ids = IdList(character_ids)],
         GenerateGroupShot(ES, files, save_to_disk, character_ids, ref, None, None, None,
                           Env(fault, now)))

CallScene(scene_prompt, character_ids, ref, fault, now) ==
  Single("scene", [NoArgs EXCEPT !.ref = ref],
         GenerateScene(ES, files, save_to_disk, scene_prompt, character_ids, ref, None,
                       None, <<>>, Env(fault, now)))

CallCover(book_id, ref, fault, now) ==
  Single("cover", [NoArgs EXCEPT !.ref = ref, !.id = book_id],
         GenerateCover(ES, files, save_to_disk, book_id, ref, None, None, Env(fault, now)))

(* _upload_image called on its own: FileNotFoundError and the upload's error
   leave it as exceptions *)
CallResolve(image_path, force, fault) ==
  LET u == UploadImage(ES, files, image_path, force, fault)
  IN /\ CanCall
     /\ SetES(u.es)
     /\ call' = Call("resolve", IF u.ok THEN "returned" ELSE "raised",
                     [NoArgs EXCEPT !.ref = S(image_path), !.force = force],
                     <<>>, 1, IF u.ok THEN <<u.url>> ELSE <<>>, <<u.tr>>, <<>>, u.exc)
     /\ ncalls' = ncalls + 1
     /\ UNCHANGED <<save_to_disk, files>>

rate_limit_delay == NodeGet(generation_settings, "rate_limit_delay_seconds", N(DefaultDelay)).v
Sleep == Ev("sleep", <<ToString(rate_limit_delay)>>, TRUE)

(* generate_all_hero_shots(reference_image, character_ids): character_ids is
   None or a list; "character_ids or ..." takes the store's ids for both None
   and the empty list *)
HeroTargets(character_ids) ==
  IF character_ids = None \/ character_ids.v = <<>> THEN list_character_ids
  ELSE [i \in 1..Len(character_ids.v) |-> AsKey(character_ids.v[i])]

HeroItems(ids) == [i \in 1..Len(ids) |-> [kind |-> "hero", id |-> ids[i], page |-> 0]]

StartAllHeroes(ref, character_ids) ==
  LET ids == HeroTargets(character_ids)
  IN /\ CanCall
     /\ call' = Call("all_heroes", IF ids = <<>> THEN "returned" ELSE "running",
                     [NoArgs EXCEPT !.ref = ref, !.character_ids = character_ids],
                     HeroItems(ids), 1, <<>>, <<>>, <<>>, "")
     /\ ncalls' = ncalls + 1
     /\ UNCHANGED <<save_to_disk, files, uploaded, nupload>>

(* the scenes of generate_book after the page-range filter: page_range is
   None or the tuple (start, end) *)
PageRange(start, end) == [t |-> "tuple", v |-> <<start, end>>]

(* the filter's test with the end bound left out *)
InRangeExclusive(scene, page_range) ==
  LET page == NodeGet(scene, "page", N(0)).v
  IN page_range.v[1] <= page /\ page < page_range.v[2]

InRange(scene, page_range) ==
  LET page == NodeGet(scene, "page", N(0)).v
  IN page_range.v[1] <= page /\ page <= page_range.v[2]

FilterScenes(scenes, page_range) ==
  IF page_range = None THEN scenes
  ELSE SelectSeq(scenes, LAMBDA sc : InRange(sc, page_range))

(* the items of a book batch: the cover if asked for, then the scenes *)
BookItems(scenes, include_cover) ==
  (IF include_cover THEN <<[kind |-> "cover", id |-> "", page |-> 0]>> ELSE <<>>)
  \o [k \in 1..Len(scenes) |-> [kind |-> "scene", id |-> "", page |-> k]]

BookDir(book_id) ==
  Join(PathOf("books_output", <<"output", "/", "books">>), <<book_id>>)

(* generate_book without the early return for a book with no scenes *)
StartBookAnyScenes(book_id, ref, include_cover, page_range) ==
  LET book == get_book(book_id)
      args == [NoArgs EXCEPT !.ref = ref, !.id = book_id, !.include_cover = include_cover,
                             !.range = page_range]
  IN /\ CanCall
     /\ IF book = None
        THEN call' = Call("book", "returned", args, <<>>, 1, <<>>, <<>>, <<>>, "")
        ELSE LET scenes == FilterScenes(book.scenes.v, page_range)
                 items == BookItems(scenes, include_cover)
             IN call' = Call("book", IF items = <<>> THEN "returned" ELSE "running",
                             [args EXCEPT !.scenes = scenes], items, 1, <<>>, <<>>,
                             <<Ev("mkdir", BookDir(book_id), TRUE)>>, "")
     /\ ncalls' = ncalls + 1
     /\ UNCHANGED <<save_to_disk, files, uploaded, nupload>>

(* generate_book up to its first generation: the lookups, the filter and the
   output directory *)
StartBook(book_id, ref, include_cover, page_range) ==
  LET book == get_book(book_id)
      args == [NoArgs EXCEPT !.ref = ref, !.id = book_id, !.include_cover = include_cover,
                             !.range = page_range]
  IN /\ CanCall
     /\ IF book = None \/ book.scenes.v = <<>>
        THEN call' = Call("book", "returned", args, <<>>, 1, <<>>, <<>>, <<>>, "")
        ELSE LET scenes == FilterScenes(book.scenes.v, page_range)
                 items == BookItems(scenes, include_cover)
             IN call' = Call("book", IF items = <<>> THEN "returned" ELSE "running",
                             [args EXCEPT !.scenes = scenes], items, 1, <<>>, <<>>,
                             <<Ev("mkdir", BookDir(book_id), TRUE)>>, "")
     /\ ncalls' = ncalls + 1
     /\ UNCHANGED <<save_to_disk, files, uploaded, nupload>>


KeysOf(list) == [i \in 1..Len(list.v) |-> AsKey(list.v[i])]

(* one iteration of generate_book's scene loop: scene k of the filtered list *)
BookScene(es, fs, std, book_id, k, scenes, ref, env) ==
  LET book == get_book(book_id)
      scene == scenes[k]
      page_num == NodeGet(scene, "page", N(k)).v
      all_char_ids == <<AsKey(book.featured_character)>> \o KeysOf(book.supporting_characters)
      scene_chars == IF Has(scene.v, "characters") THEN KeysOf(NodeGet(scene, "characters", None))
                     ELSE all_char_ids
  IN GenerateScene(es, fs, std, NodeGet(scene, "prompt", S(<<>>)).v, scene_chars, ref,
                   book.primary_location,
                   S(Join(BookDir(book_id), <<"page_">> \o Fmt02(page_num))),
                   <<>>, env)

(* the generation of item i of the running batch *)
GenerateItem(es, fs, std, c, env) ==
  LET item == c.items[c.i]
  IN CASE item.kind = "hero" ->
            GenerateHeroShot(es, fs, std, item.id, c.args.ref, None, None, None, env)
       [] item.kind = "cover" ->
            GenerateCover(es, fs, std, c.args.id, c.args.ref, None,
                          S(Join(BookDir(c.args.id), <<"cover">>)), env)
       [] item.kind = "scene" ->
            BookScene(es, fs, std, c.args.id, item.page, c.args.scenes, c.args.ref, env)

(* whether the batch sleeps after item i: generate_all_hero_shots and the
   scene loop sleep between items, the cover is always followed by a sleep *)
SleepsAfter(c) ==
  \/ c.items[c.i].kind = "cover"
  \/ c.i < Len(c.items)

(* one iteration of the running batch: generate the item, append its result,
   sleep; the batch returns after its last item, and an exception of the item
   leaves the batch *)
AfterItem(c, r) ==
  IF r.st = "raised"
  THEN [c EXCEPT !.status = "raised", !.exc = r.res,
                 !.itemtr = Append(@, r.tr),
                 !.trace = Append(@, Ev("gen", <<ToString(c.i)>>, FALSE))]
  ELSE [c EXCEPT !.status = IF c.i = Len(c.items) THEN "returned" ELSE "running",
                 !.i = c.i + 1,
                 !.results = Append(@, r.res),
                 !.itemtr = Append(@, r.tr),
                 !.trace = Append(@, Ev("gen", <<ToString(c.i)>>, TRUE))
                           \o (IF SleepsAfter(c) THEN <<Sleep>> ELSE <<>>)]

BatchStep(fault, now) ==
  /\ call.status = "running"
  /\ LET r == GenerateItem(ES, files, save_to_disk, call, Env(fault, now))
     IN /\ SetES(r.es)
        /\ call' = AfterItem(call, r)
  /\ UNCHANGED <<save_to_disk, files, ncalls>>

(* the summary both batches print before they return: the number of
   successful results and the sum of their costs *)
successful(results) == Len(SelectSeq(results, LAMBDA r : r.success))

RECURSIVE CostOfAll(_)
CostOfAll(results) ==
  IF results = <<>> THEN 0 ELSE Head(results).cost + CostOfAll(Tail(results))

RECURSIVE actual_cost(_)
actual_cost(results) ==
  IF results = <<>> THEN 0
  ELSE (IF Head(results).success THEN Head(results).cost ELSE 0) + actual_cost(Tail(results))

(* the world outside: a reference file is deleted or put back *)
LocalFiles == {<<"refs", "/", "barnaby.jpg">>}

EnvFiles(f) ==
  /\ f \in LocalFiles
  /\ files' = IF f \in files THEN files \ {f} ELSE files \cup {f}
  /\ UNCHANGED <<save_to_disk, uploaded, nupload, call, ncalls>>


-----------------------------------------------------------------------------
(* The engine's specification: an engine on a loaded store, called from
   outside while reference files come and go *)

RefUrl == <<"http", "s://", "example.com/ref.jpg">>
RefFile == <<"refs", "/", "barnaby.jpg">>
RefHttpDir == <<"http", "_refs", "/", "barnaby.jpg">>

EngineConfig ==
  SetPath(SetPath(BaseConfig, <<"characters", "gus_goat">>,
                  CharData("Gus", "a calm goat")).node,
          <<"api", "cost_per_image">>, N(5)).node

(* templates str.format rejects: an unmatched brace, a positional field *)
MalformedConfig ==
  SetPath(SetPath(EngineConfig, <<"prompt_templates", "hero_shot">>,
                  Tpl(<<"{", "character_name", "}", " ", "{">>)).node,
          <<"prompt_templates", "scene">>, Tpl(<<"{", "}", " scene">>)).node

EngineDocs == {EngineConfig, MalformedConfig}

(* a new engine: nothing uploaded, nothing called *)
EngineIdle ==
  /\ uploaded = <<>>
  /\ nupload = 0
  /\ call = IdleCall
  /\ ncalls = 0

vars == <<raw, characters, locations, books, style_presets, prompt_templates,
          image_settings, disk, ret, nmut, save_to_disk, uploaded, files, nupload,
          call, ncalls>>

Init ==
  /\ \E doc \in EngineDocs : LoadedFrom(doc)
  /\ save_to_disk \in BOOLEAN
  /\ files \in SUBSET LocalFiles
  /\ EngineIdle

HeroCalls ==
  { <<"barnaby_bunny", None>>, <<"barnaby_bunny", S(RefFile)>>,
    <<"barnaby_bunny", S(RefUrl)>>, <<"nobody", None>>, <<"nobody", S(RefFile)>> }
GroupCalls ==
  { <<<<"barnaby_bunny", "nobody">>, S(RefFile)>>, <<<<"nobody">>, None>>,
    <<<<"nobody">>, S(RefFile)>>, <<<<"gus_goat", "nobody", "barnaby_bunny">>, None>> }
SceneRefs == {S(RefFile), S(RefHttpDir), None}
CoverCalls ==
  { <<"book_01", S(RefFile)>>, <<"book_01", S(RefHttpDir)>>,
    <<"book_03", S(RefFile)>>, <<"nobook", S(RefFile)>> }
ResolvePaths == {RefFile, RefHttpDir, RefUrl}
HeroSubsets == {None, L(<<>>), L(<<S(<<"nobody">>), S(<<"gus_goat">>)>>)}
BookIds == {"book_01", "book_02", "nobook"}
PageRanges == {None, PageRange(2, 3), PageRange(7, 9)}

Next ==
  \/ \E in \in HeroCalls, fault \in Faults, now \in Clock :
       CallHero(in[1], in[2], fault, now) /\ UNCHANGED storeVars
  \/ \E in \in GroupCalls, fault \in Faults, now \in Clock :
       CallGroup(in[1], in[2], fault, now) /\ UNCHANGED storeVars
  \/ \E ref \in SceneRefs, fault \in Faults, now \in Clock :
       CallScene(<<"a picnic">>, <<"barnaby_bunny">>, ref, fault, now) /\ UNCHANGED storeVars
  \/ \E in \in CoverCalls, fault \in Faults, now \in Clock :
       CallCover(in[1], in[2], fault, now) /\ UNCHANGED storeVars
  \/ \E path \in ResolvePaths, force \in BOOLEAN, fault \in {"none", "upload"} :
       CallResolve(path, force, fault) /\ UNCHANGED storeVars
  \/ \E ref \in {None, S(RefFile)}, ids \in HeroSubsets :
       StartAllHeroes(ref, ids) /\ UNCHANGED storeVars
  \/ \E id \in BookIds, include_cover \in BOOLEAN, range \in PageRanges :
       StartBook(id, S(RefFile), include_cover, range) /\ UNCHANGED storeVars
  \/ \E fault \in Faults, now \in Clock : BatchStep(fault, now) /\ UNCHANGED storeVars
  \/ \E f \in LocalFiles : EnvFiles(f) /\ UNCHANGED storeVars

Spec == Init /\ [][Next]_vars

-----------------------------------------------------------------------------
(* Properties of the engine *)

IsBatch(c) == c.kind \in {"all_heroes", "book"}
IsSingle(c) == c.kind \in {"hero", "group", "scene", "cover"}

(* a step of the engine, as opposed to one of the world outside *)
EngineStep == ncalls' # ncalls \/ call' # call

(* the external events of the item the step generated *)
NewTrace == IF call'.itemtr = <<>> THEN <<>> ELSE call'.itemtr[Len(call'.itemtr)]

RECURSIVE Flat(_)
Flat(trs) == IF trs = <<>> THEN <<>> ELSE Head(trs) \o Flat(Tail(trs))

Events(c) == Flat(c.itemtr) \o c.trace
Of(tr, kinds) == SelectSeq(tr, LAMBDA ev : ev.e \in kinds)

(* what the events say about an item: it was synthesized and nothing failed *)
Generated(tr) ==
  /\ \E n \in 1..Len(tr) : tr[n].e = "synth"
  /\ \A n \in 1..Len(tr) : tr[n].ok

(* C1: in both batch operations an iteration attempts the next item, and
   whatever way the item fails the batch goes on to the item after it: no
   failure of item i keeps an item j > i from being attempted. *)
C1_ContinuesPastFailure ==
  [][(call.status = "running" /\ call' # call) =>
       /\ Len(call'.itemtr) = Len(call.itemtr) + 1
       /\ call.i < Len(call.items) =>
            /\ call'.status = "running"
            /\ call'.i = call.i + 1]_vars

(* C1, the part that holds: an item that ends in a failed result (missing
   entity, missing reference, upload, synthesis, download or write failure)
   leaves the batch running on the item after it, and the batch returns only
   after its last item. *)
C1_ResultsContinue ==
  [][(call.status = "running" /\ call' # call /\ call'.status # "raised") =>
       /\ Len(call'.itemtr) = Len(call.itemtr) + 1
       /\ Len(call'.results) = call.i
       /\ call'.i = call.i + 1
       /\ call'.status = IF call.i < Len(call.items) THEN "running" ELSE "returned"]_vars

EntryIsItem(res, book, scenes, item) ==
  /\ res.prompt_used # <<>>
  /\ res.prompt_used[1] = IF item.kind = "cover" THEN book.title.v[1]
                          ELSE NodeGet(scenes[item.page], "prompt", S(<<>>)).v[1]
  /\ res.success =>
       Get(res.metadata, "type", None) = S(<<item.kind>>)

(* the list generate_book returned has an entry per item, the cover first and
   the scenes in their filtered order, and an entry has success = false
   exactly when that item's own generation failed *)
BookResultsShape(c) ==
  LET n == Len(c.args.scenes)
      cover == IF c.args.include_cover THEN 1 ELSE 0
  IN /\ Len(c.results) = n + cover
     /\ cover = 1 => EntryIsItem(c.results[1], get_book(c.args.id), c.args.scenes,
                                 [kind |-> "cover", id |-> "", page |-> 0])
     /\ \A k \in 1..n :
          EntryIsItem(c.results[k + cover], get_book(c.args.id), c.args.scenes,
                      [kind |-> "scene", id |-> "", page |-> k])
     /\ \A j \in 1..(n + cover) : c.results[j].success <=> Generated(c.itemtr[j])

(* C2: for a known book with n >= 1 selected scenes, generate_book returns a
   list of n entries (n+1 with the cover), the cover first and the scenes in
   their filtered order, in which an entry has success = false exactly when
   that item's own generation failed. *)
C2_BookResults ==
  (call.kind = "book" /\ call.status # "running" /\ Len(call.args.scenes) >= 1) =>
    /\ call.status = "returned"
    /\ BookResultsShape(call)

(* C2, the part that holds: whenever generate_book returns, the list it
   returns is as stated. *)
C2_ReturnedResults ==
  (call.kind = "book" /\ call.status = "returned" /\ Len(call.args.scenes) >= 1) =>
    BookResultsShape(call)

(* C3: a batch of k >= 1 items performs exactly k-1 delays, none of them after
   its final item. *)
C3_DelaysBetweenItems ==
  (IsBatch(call) /\ call.status = "returned" /\ Len(call.results) >= 1) =>
    /\ Len(Of(call.trace, {"sleep"})) = Len(call.results) - 1
    /\ call.trace[Len(call.trace)].e # "sleep"

(* C4: each of the four generation operations returns a GenerationResult and
   never raises, whatever fails inside it. *)
C4_NeverRaises ==
  IsSingle(call) => call.status = "returned"


(* a call of _upload_image from outside *)
ResolveStep == call'.kind = "resolve" /\ ncalls' = ncalls + 1

(* C5 as stated: a resolution of a local path with force makes one more
   upload whatever the cache holds, and one without force of a path resolved
   before returns the cached handle with no upload. *)
C5_UploadOnceForceAlways ==
  [][ResolveStep =>
       LET path == call'.args.ref.v
       IN ~StartsWithHttp(path) =>
            /\ call'.args.force => nupload' = nupload + 1
            /\ (~call'.args.force /\ path \in DOMAIN uploaded) =>
                 /\ nupload' = nupload
                 /\ call'.status = "returned"
                 /\ call'.results = <<uploaded[path]>>]_vars

(* C5, amended: a step of the engine makes at most one upload call; without
   force it makes none for a path in the cache, and a resolution of a cached
   path returns the cached handle; a successful upload is cached and the
   cache never loses a path, so a path is uploaded successfully at most once
   without force.  With force, a resolution of a path that does not start
   with "http" and whose file exists makes exactly one upload call, whatever
   the cache holds. *)
C5_CachedUnlessForced ==
  [][EngineStep =>
       LET ups == Of(NewTrace, {"upload"})
           forced == call'.kind = "resolve" /\ call'.args.force
       IN /\ nupload' = nupload + Len(ups)
          /\ Len(ups) <= 1
          /\ DOMAIN uploaded \subseteq DOMAIN uploaded'
          /\ \A n \in 1..Len(ups) :
               /\ ~forced => ups[n].a \notin DOMAIN uploaded
               /\ ups[n].ok => uploaded'[ups[n].a] = UploadUrl(nupload')
          /\ ResolveStep =>
               LET path == call'.args.ref.v
               IN /\ (~forced /\ path \in DOMAIN uploaded) =>
                       /\ ups = <<>>
                       /\ call'.status = "returned"
                       /\ call'.results = <<uploaded[path]>>
                  /\ (forced /\ ~StartsWithHttp(path) /\ path \in files) =>
                       /\ Len(ups) = 1
                       /\ ups[1].a = path]_vars

C5_Witness ==
  /\ call.kind = "resolve" /\ call.args.force /\ call.status = "returned"
  /\ nupload = 2
  /\ RefFile \in DOMAIN uploaded /\ uploaded[RefFile] = UploadUrl(2)

C7_NoLocalWrites ==
  ~save_to_disk =>
    /\ Of(Events(call), {"mkdir", "write"}) = <<>>
    /\ (call.kind # "resolve") =>
         \A j \in 1..Len(call.results) :
           call.results[j].success =>
             /\ call.results[j].image_url # None
             /\ call.results[j].output_path = None

-----------------------------------------------------------------------------
(* The store's specification: a store on a loaded document, mutated through
   its operations, loaded and saved *)

InitStore ==
  /\ \E doc \in StoreDocs : LoadedFrom(doc)
  /\ save_to_disk = TRUE
  /\ files = LocalFiles
  /\ EngineIdle

NextStore ==
  \/ Load
  \/ Save
  \/ \E in \in SetValueInputs : SetValue(in[1], in[2])
  \/ \E id \in StyleIds : SetActiveStyle(id)
  \/ \E in \in CharInputs : AddCharacter(in[1], in[2])
  \/ \E in \in CharUpdates : UpdateCharacter(in[1], in[2])
  \/ \E in \in StyleInputs : AddStylePreset(in[1], in[2], in[3])
  \/ \E in \in SceneInputs : UpdateBookScenes(in[1], in[2])

SpecStore == InitStore /\ [][NextStore /\ UNCHANGED engineVars]_vars

-----------------------------------------------------------------------------
(* Properties of the store *)

StepOf(op) == ret'.op = op /\ nmut' = nmut + 1

(* the raw config apart from one top-level key *)
RawExcept(r, k) == SelectSeq(r.v, LAMBDA item : item[1] # k)

(* C8: set_active_style(id) returns true and points active_style at id when id
   names an existing preset; otherwise it returns false and changes nothing.
   Either way the presets, raw and typed, are what they were. *)
C8_SetActiveStyle ==
  [][StepOf("set_active_style") =>
       /\ style_presets' = style_presets
       /\ NodeGet(raw', "style_presets", None) = NodeGet(raw, "style_presets", None)
       /\ Typed' = Typed
       /\ disk' = disk
       /\ IF Has(style_presets.v, ret'.arg)
          THEN /\ ret'.ok
               /\ active_style_of(raw') = ret'.arg
               /\ RawExcept(raw', "active_style") = RawExcept(raw, "active_style")
          ELSE /\ ~ret'.ok
               /\ raw' = raw]_storeVars

C8_Witness ==
  /\ ret.op = "set_active_style"
  /\ ret.ok
  /\ ret.arg = "watercolor"
  /\ active_style = "watercolor"
  /\ Has(style_presets.v, "pixar")

ActiveStyleValid(r, sp) == Has(sp.v, active_style_of(r))

C10_RoundTrip ==
  [][(ret.op = "save" /\ StepOf("load")) =>
       /\ ret'.ok
       /\ Typed' = Typed
       /\ active_style_of(raw') = active_style_of(raw)
       /\ raw' = raw]_storeVars

C10_Witness ==
  /\ ret.op = "load"
  /\ ret.ok
  /\ nmut = 3
  /\ disk = SaveDoc(raw)
  /\ \A doc \in StoreDocs : raw # doc

Mutations ==
  {"set_value", "add_character", "update_character", "add_style_preset",
   "update_book_scenes", "set_active_style"}

(* C11: after every mutation of the store (set_value, add_character,
   update_character, add_style_preset, update_book_scenes, set_active_style)
   the typed characters, locations, books and style presets are what parsing
   the raw configuration as it now is produces. *)
C11_TypedIsParsedRaw ==
  [][(\E op \in Mutations : StepOf(op)) =>
       LET p == ParseConfig(raw', EmptyTyped)
       IN /\ p.ok
          /\ characters' = p.characters
          /\ locations' = p.locations
          /\ books' = p.books
          /\ style_presets' = p.style_presets]_vars

(* set_value created the level characters.gus_goat and the re-parse made a
   typed character of it *)
C11_Witness ==
  /\ ret = Ret("set_value", TRUE, <<"characters", "gus_goat", "name">>)
  /\ nmut = 1
  /\ Get(characters, "gus_goat", None) # None
  /\ Get(characters, "gus_goat", None).name = S(<<"Gus">>)
  /\ Get(characters, "gus_goat", None).description = S(<<>>)



-----------------------------------------------------------------------------
(* Properties of the engine's lookups *)

(* the text of a result's error contains the piece of text *)
Mentions(res, piece) ==
  /\ res.error # None
  /\ \E n \in 1..Len(res.error.v) : res.error.v[n] = piece

(* C12: generate_hero_shot for a character id the store does not know returns
   a result with success = false whose error mentions the id; it raises
   nothing and calls nothing outside. *)
C12_UnknownHeroFails ==
  (call.kind = "hero" /\ get_character(call.args.id) = None) =>
    /\ call.status = "returned"
    /\ Len(call.results) = 1
    /\ ~call.results[1].success
    /\ Mentions(call.results[1], call.args.id)
    /\ call.itemtr = << <<>> >>

C12_Witness ==
  /\ call.kind = "hero"
  /\ call.args.id = "nobody"
  /\ raw = MalformedConfig
  /\ call.results = <<Failed(<<"Character not found: ", "nobody">>, <<>>)>>

(* a call of generate_book from outside *)
BookCall == call'.kind = "book" /\ ncalls' = ncalls + 1

(* C13: generate_book for a book id the store does not know, or for a book
   with no scenes, returns the empty list and attempts nothing: no cover, no
   scene, no upload, no synthesis, no delay, no directory. *)
C13_NothingForNoBook ==
  [][(BookCall /\ (get_book(call'.args.id) = None
                   \/ get_book(call'.args.id).scenes.v = <<>>)) =>
       /\ call'.status = "returned"
       /\ call'.results = <<>>
       /\ call'.items = <<>>
       /\ Events(call') = <<>>
       /\ nupload' = nupload
       /\ uploaded' = uploaded]_vars

C13_Witness ==
  /\ call.kind = "book"
  /\ call.args.id = "book_02"
  /\ call.args.include_cover
  /\ get_book("book_02") # None
  /\ call.status = "returned"
  /\ call.results = <<>>

-----------------------------------------------------------------------------
(* The book specification: an engine on a store whose books have pages with
   gaps and pages out of order, and whose cost per image is not the default;
   books and hero batches are generated while the synthesis may fail *)

BookConfig ==
  SetPath(SetPath(SetPath(EngineConfig, <<"api", "cost_per_image">>, N(5)).node,
            <<"books", "book_05">>,
            D(<< <<"title", S(<<"The Long Road">>)>>,
                 <<"featured_character", S(<<"barnaby_bunny">>)>>,
                 <<"scenes", L(<<SceneData(1, "sets out"), SceneData(2, "meets a friend"),
                                 SceneData(3, "shares lunch"), SceneData(5, "gets lost"),
                                 SceneData(8, "comes home")>>)>> >>)).node,
          <<"books", "book_06">>,
          D(<< <<"title", S(<<"The Mixed Pages">>)>>,
               <<"featured_character", S(<<"gus_goat">>)>>,
               <<"scenes", L(<<SceneData(5, "the end"), SceneData(2, "the start"),
                               SceneData(2, "the start again")>>)>> >>)).node

PageStarts == {1, 2, 4, 9}
PageEnds == {0, 3, 5, 8}
BookRanges == {None} \cup {PageRange(start, end) : start \in PageStarts, end \in PageEnds}
PagedBooks == {"book_05", "book_06"}
BookFaults == {"none", "synth"}

InitBook ==
  /\ LoadedFrom(BookConfig)
  /\ save_to_disk \in BOOLEAN
  /\ files = {}
  /\ EngineIdle

NextBook ==
  \/ \E id \in PagedBooks, include_cover \in BOOLEAN, range \in BookRanges :
       StartBook(id, S(RefUrl), include_cover, range) /\ UNCHANGED storeVars
  \/ \E ids \in HeroSubsets :
       StartAllHeroes(None, ids) /\ UNCHANGED storeVars
  \/ \E fault \in BookFaults, now \in Clock : BatchStep(fault, now) /\ UNCHANGED storeVars

SpecBook == InitBook /\ [][NextBook]_vars

(* the page a scene is filtered by *)
PageOf(scene) == NodeGet(scene, "page", N(0)).v

Pages(scenes) == [k \in 1..Len(scenes) |-> PageOf(scenes[k])]

(* the positions of the scenes whose page is within the bounds, and the
   n-th of them *)
Within(scenes, start, end) ==
  {k \in 1..Len(scenes) : start <= PageOf(scenes[k]) /\ PageOf(scenes[k]) <= end}

NthOf(set, n) == CHOOSE k \in set : Cardinality({j \in set : j < k}) = n - 1

(* C14: with a page range (start, end), generate_book keeps exactly the scenes
   whose page p has start <= p <= end, both bounds included, in their original
   order; pages 1, 2, 3, 5, 8 with the range (2, 5) give pages 2, 3, 5. *)
C14_PageRangeFilter ==
  (call.kind = "book" /\ call.args.range # None /\ get_book(call.args.id) # None) =>
    LET all == get_book(call.args.id).scenes.v
        start == call.args.range.v[1]
        end == call.args.range.v[2]
        kept == Within(all, start, end)
    IN /\ Len(call.args.scenes) = Cardinality(kept)
       /\ \A n \in 1..Cardinality(kept) : call.args.scenes[n] = all[NthOf(kept, n)]
       /\ (Pages(all) = <<1, 2, 3, 5, 8>> /\ start = 2 /\ end = 5) =>
            Pages(call.args.scenes) = <<2, 3, 5>>

C14_Witness ==
  /\ call.kind = "book"
  /\ call.args.id = "book_05"
  /\ call.args.range = PageRange(2, 5)
  /\ Pages(call.args.scenes) = <<2, 3, 5>>
  /\ call.status = "returned"
  /\ Len(call.results) = 3

(* C15: in the summary of a batch the success count is the number of entries
   with success = true, and the total cost is the sum of the costs of those
   entries only, which is the success count times the configured cost per
   image: failed entries add nothing. *)
C15_SummaryCost ==
  (IsBatch(call) /\ call.status = "returned") =>
    LET ok == {j \in 1..Len(call.results) : call.results[j].success}
    IN /\ successful(call.results) = Cardinality(ok)
       /\ actual_cost(call.results) = Cardinality(ok) * cost_per_image
       /\ \A j \in ok : call.results[j].cost = cost_per_image

C15_Witness ==
  /\ call.kind = "book"
  /\ call.status = "returned"
  /\ Len(call.results) = 3
  /\ successful(call.results) = 2
  /\ actual_cost(call.results) = 10
  /\ cost_per_image = 5
  /\ \E j \in 1..3 : ~call.results[j].success /\ call.results[j].cost = DefaultCost

(* result j of a hero batch is the result of the hero shot of the id *)
HeroResultOf(res, id) ==
  /\ get_character(id) = None => ~res.success /\ Mentions(res, id)
  /\ res.success => Get(res.metadata, "character_id", None) = S(<<id>>)

HeroResultsFor(c, targets) ==
  /\ c.items = HeroItems(targets)
  /\ Len(c.results) = Len(targets)
  /\ Len(c.itemtr) = Len(targets)
  /\ \A j \in 1..Len(targets) : HeroResultOf(c.results[j], targets[j])

(* C16: generate_all_hero_shots generates a hero shot once for each target id
   and returns one result per target in the targets' order; the targets are
   the subset supplied, whatever its size, and the store's ids in stored order
   only when no subset is supplied. *)
C16_OnePerTarget ==
  (call.kind = "all_heroes" /\ call.status # "running") =>
    /\ call.status = "returned"
    /\ HeroResultsFor(call, IF call.args.character_ids = None THEN list_character_ids
                            ELSE KeysOf(call.args.character_ids))

(* C16, the part that holds: whenever generate_all_hero_shots returns, it
   returns one result per target in order, the targets being the subset
   supplied when it is not empty and the store's ids otherwise. *)
C16_ReturnedPerTarget ==
  (call.kind = "all_heroes" /\ call.status = "returned") =>
    HeroResultsFor(call, IF call.args.character_ids = None
                              \/ call.args.character_ids.v = <<>>
                         THEN list_character_ids
                         ELSE KeysOf(call.args.character_ids))

C16_Witness ==
  /\ call.kind = "all_heroes"
  /\ call.status = "returned"
  /\ call.args.character_ids = L(<<>>)
  /\ Len(call.results) = 2
  /\ raw = EngineConfig

-----------------------------------------------------------------------------
(* The prompt specification: build_prompt on a store whose templates have
   named fields, escaped braces, an unmatched brace and a positional field,
   called with variable sets that cover all, some or none of the fields *)

PromptTemplates ==
  D(<< <<"both", Tpl(Field("a") \o <<" and ">> \o Field("b"))>>,
       <<"three", Tpl(Field("a") \o <<" ">> \o Field("b") \o <<" ">> \o Field("c"))>>,
       <<"styled", Tpl(Field("a") \o <<" in ">> \o Field("style_prompt"))>>,
       <<"open", Tpl(Field("a") \o <<" ", "{">>)>>,
       <<"positional", Tpl(<<"{", "}", " x">>)>>,
       <<"escaped", Tpl(<<"{", "{", "a", "}", "}", " ">> \o Field("b"))>>,
       <<"plain", Tpl(<<"no fields">>)>>,
       <<"empty", Tpl(<<>>)>> >>)

PromptConfig == SetPath(EngineConfig, <<"prompt_templates">>, PromptTemplates).node

TemplateNames ==
  {"both", "three", "styled", "open", "positional", "escaped", "plain", "empty", "missing"}

KwargSets ==
  { <<>>,
    << <<"a", <<"X">>>> >>,
    << <<"b", <<"Y">>>> >>,
    << <<"a", <<"X">>>>, <<"b", <<"Y">>>> >>,
    << <<"a", <<"X">>>>, <<"b", <<"Y">>>>, <<"c", <<"W">>>> >>,
    << <<"a", Field("b")>>, <<"b", <<"Y">>>> >>,
    << <<"a", <<"X">>>>, <<"style_prompt", <<"my style">>>> >> }

(* build_prompt called from outside: what it returns, or the exception that
   leaves it *)
BuildPrompt(template_name, kwargs) ==
  LET r == build_prompt(template_name, kwargs)
  IN /\ ret' = Ret("build_prompt", r.st = "ok",
                   [template_name |-> template_name, kwargs |-> kwargs,
                    exc |-> IF r.st = "ok" THEN "" ELSE r.st,
                    out |-> IF r.st = "ok" THEN r.out ELSE <<>>])
     /\ UNCHANGED <<raw, characters, locations, books, style_presets, prompt_templates,
                    image_settings, disk, nmut>>

InitPrompt ==
  /\ LoadedFrom(PromptConfig)
  /\ save_to_disk = TRUE
  /\ files = LocalFiles
  /\ EngineIdle

NextPrompt ==
  \/ \E name \in TemplateNames, kwargs \in KwargSets : BuildPrompt(name, kwargs)
  \/ \E id \in StyleIds : SetActiveStyle(id)

SpecPrompt == InitPrompt /\ [][NextPrompt /\ UNCHANGED engineVars]_vars

(* the variables of a call with the style's prompt supplied where the caller
   gave none *)
WithStyle(kwargs) ==
  IF Has(kwargs, "style_prompt") THEN kwargs
  ELSE Append(kwargs, <<"style_prompt", active_style_prompt>>)

(* the template with every field whose name is among the variables replaced
   by the variable's value, in one pass, and everything else left as it is *)
RECURSIVE Substituted(_, _)
Substituted(t, kw) ==
  IF t = <<>> THEN <<>>
  ELSE IF Len(t) >= 3 /\ t[1] = "{" /\ t[3] = "}" /\ Has(kw, t[2])
  THEN At(kw, t[2]) \o Substituted(SubSeq(t, 4, Len(t)), kw)
  ELSE <<t[1]>> \o Substituted(Tail(t), kw)

(* C17: for every template and every set of variables build_prompt raises
   nothing and returns the template with each field whose name is among the
   variables (the active style's prompt being supplied as style_prompt)
   replaced by that variable's value and every other field left as its
   literal marker. *)
C17_PartialSubstitution ==
  ret.op = "build_prompt" =>
    /\ ret.ok
    /\ ret.arg.out = Substituted(get_prompt_template(ret.arg.template_name),
                                 WithStyle(ret.arg.kwargs))

(* every brace of the template belongs to a field with a name *)
NamedFieldsOnly(t) ==
  \A i \in 1..Len(t) :
    /\ t[i] = "{" => i + 2 <= Len(t) /\ t[i + 1] \notin {"{", "}"} /\ t[i + 2] = "}"
    /\ t[i] = "}" => i >= 3 /\ t[i - 2] = "{" /\ t[i - 1] \notin {"{", "}"}

NoBraces(kw) ==
  \A i \in 1..Len(kw) : \A j \in 1..Len(kw[i][2]) : kw[i][2][j] \notin {"{", "}"}

(* C17, the part that holds: for a template whose braces all belong to named
   fields and variables whose values hold no brace, build_prompt raises
   nothing and returns the partial substitution. *)
C17_NamedFieldsSubstituted ==
  (/\ ret.op = "build_prompt"
   /\ NamedFieldsOnly(get_prompt_template(ret.arg.template_name))
   /\ NoBraces(WithStyle(ret.arg.kwargs))) =>
    /\ ret.ok
    /\ ret.arg.out = Substituted(get_prompt_template(ret.arg.template_name),
                                 WithStyle(ret.arg.kwargs))

C17_Witness ==
  /\ ret.op = "build_prompt"
  /\ ret.arg.template_name = "open"
  /\ ret.arg.kwargs = << <<"a", <<"X">>>> >>
  /\ ~ret.ok
  /\ ret.arg.exc = "ValueError"

C17_WitnessPartial ==
  /\ ret.op = "build_prompt"
  /\ ret.arg.template_name = "both"
  /\ ret.arg.kwargs = << <<"a", <<"X">>>> >>
  /\ ret.ok
  /\ ret.arg.out = <<"X", " and ", "{", "b", "}">>

C17_WitnessChained ==
  /\ ret.op = "build_prompt"
  /\ ret.arg.template_name = "three"
  /\ ret.arg.kwargs = << <<"a", Field("b")>>, <<"b", <<"Y">>>> >>
  /\ ret.ok
  /\ ret.arg.out = <<"Y", " ", "Y", " ", "{", "c", "}">>

-----------------------------------------------------------------------------
(* Properties of the store's lookups *)

CharacterProbes == {"barnaby_bunny", "gus_goat", "nobody", "impostor"}

(* C18: in every state of the store, get_character of an id the store knows
   returns a record whose id is the id asked for, and get_character of any
   other id returns None; neither raises. *)
C18_GetCharacterById ==
  \A id \in CharacterProbes :
    LET c == get_character(id)
    IN IF \E n \in 1..Len(list_character_ids) : list_character_ids[n] = id
       THEN c # None /\ c.id = id
       ELSE c = None

C18_Witness ==
  /\ ret = Ret("update_character", TRUE, "barnaby_bunny")
  /\ NodeGet(NodeGet(NodeGet(raw, "characters", D(<<>>)), "barnaby_bunny", D(<<>>)),
             "id", None) = S(<<"impostor">>)
  /\ get_character("barnaby_bunny") # None
  /\ get_character("barnaby_bunny").id = "barnaby_bunny"
  /\ get_character("barnaby_bunny").description = S(<<"a bold bunny">>)
  /\ get_character("impostor") = None

(* the ids of a list that the store knows, in the list's order, and the text
   of their names *)
Resolved(ids) == SelectSeq(ids, LAMBDA id : get_character(id) # None)

NameList(ids) == JoinWith([n \in 1..Len(ids) |-> get_character(ids[n]).name.v], ", ")

NoValidCharacters == Failed(<<"No valid characters found">>, <<>>)

(* C19: generate_group_shot skips the ids the store does not know.  When no
   id is known it returns the failed result "No valid characters found" and
   calls nothing outside; when some id is known it does not, and goes on with
   the known characters only, in the order their ids were given. *)
C19_GroupResolution ==
  call.kind = "group" =>
    LET ids == KeysOf(call.args.character_ids)
        names == NameList(Resolved(ids))
    IN IF Resolved(ids) = <<>>
       THEN /\ call.status = "returned"
            /\ call.results = <<NoValidCharacters>>
            /\ call.itemtr = << <<>> >>
       ELSE call.status = "returned" =>
              /\ call.results[1] # NoValidCharacters
              /\ Len(call.results[1].prompt_used) > Len(names)
              /\ SubSeq(call.results[1].prompt_used, 1, Len(names)) = names
              /\ call.results[1].prompt_used[Len(names) + 1] = " at "
              /\ call.results[1].success =>
                    Get(call.results[1].metadata, "character_names", None)
                      = L([n \in 1..Len(Resolved(ids)) |->
                             get_character(Resolved(ids)[n]).name])

C19_Witness ==
  /\ call.kind = "group"
  /\ call.args.character_ids = IdList(<<"gus_goat", "nobody", "barnaby_bunny">>)
  /\ call.status = "returned"
  /\ call.results[1].success
  /\ SubSeq(call.results[1].prompt_used, 1, 4) = <<"Gus", ", ", "Barnaby", " at ">>

C19_WitnessNone ==
  /\ call.kind = "group"
  /\ call.args.character_ids = IdList(<<"nobody">>)
  /\ call.results = <<NoValidCharacters>>

(* C20: generate_cover returns the failed result "Book not found" for a book
   id the store does not know, and the failed result "Featured character not
   found" for a known book whose featured character the store does not know;
   in both cases it raises nothing and calls nothing outside. *)
C20_CoverLookups ==
  call.kind = "cover" =>
    LET book == get_book(call.args.id)
    IN /\ book = None =>
            /\ call.status = "returned"
            /\ call.results = <<Failed(<<"Book not found: ", call.args.id>>, <<>>)>>
            /\ call.itemtr = << <<>> >>
       /\ (book # None /\ get_character(AsKey(book.featured_character)) = None) =>
            /\ call.status = "returned"
            /\ call.results = <<Failed(<<"Featured character not found: ">>
                                       \o book.featured_character.v, <<>>)>>
            /\ call.itemtr = << <<>> >>

C20_Witness ==
  /\ call.kind = "cover"
  /\ call.args.id = "book_03"
  /\ get_book("book_03") # None
  /\ call.status = "returned"
  /\ ~call.results[1].success
  /\ call.results[1].error = S(<<"Featured character not found: ", "old_owl">>)

C20_WitnessNoBook ==
  /\ call.kind = "cover"
  /\ call.args.id = "nobook"
  /\ call.results[1].error = S(<<"Book not found: ", "nobook">>)

-----------------------------------------------------------------------------
(* Properties of the results *)

(* a result explains itself: a failed one has an error text that is not
   empty, a successful one has none *)
Explained(res) ==
  IF res.success THEN res.error = None
  ELSE res.error # None /\ res.error.v # <<>>

(* a finished request that failed: a single operation that raised or
   returned a failed result, or generate_book for a book the store does not
   know or a book with no scenes *)
FailedRequest(c) ==
  \/ /\ IsSingle(c)
     /\ c.status = "raised" \/ (c.status = "returned" /\ ~c.results[1].success)
  \/ /\ c.kind = "book"
     /\ c.status # "running"
     /\ get_book(c.args.id) = None \/ get_book(c.args.id).scenes.v = <<>>

(* C21: every failed result carries an error text that is not empty, every
   successful result carries none, and every failed request, generate_book
   for an unknown book or a book without scenes included, yields at least
   one result that carries the error. *)
C21_FailuresExplained ==
  /\ \A j \in 1..Len(call.results) :
       (IsSingle(call) \/ IsBatch(call)) => Explained(call.results[j])
  /\ FailedRequest(call) =>
       \E j \in 1..Len(call.results) :
         ~call.results[j].success /\ Explained(call.results[j])

(* C21, the part that holds: every result an operation or a batch returns
   explains itself. *)
C21_ResultsExplained ==
  (IsSingle(call) \/ IsBatch(call)) =>
    \A j \in 1..Len(call.results) : Explained(call.results[j])

C21_Witness ==
  /\ call.kind = "book"
  /\ call.args.id = "nobook"
  /\ get_book("nobook") = None
  /\ call.status = "returned"
  /\ call.results = <<>>

-----------------------------------------------------------------------------
(* Properties of the reference resolver *)

(* the text is a remote URL: http:// or https:// and what follows *)
IsRemoteUrl(path) ==
  /\ Len(path) >= 2
  /\ path[1] = "http"
  /\ path[2] \in {"://", "s://"}

(* C22: _upload_image returns a reference that is a remote URL unchanged,
   with no upload and no change of the upload cache, whether or not a file
   of that name exists and with or without force; every upload any operation
   makes is of a path that is no URL and names an existing local file, and an
   operation given a URL passes that URL to the synthesis. *)
C22_UrlPassesThrough ==
  [][EngineStep =>
       /\ (ResolveStep /\ IsRemoteUrl(call'.args.ref.v)) =>
            /\ call'.status = "returned"
            /\ call'.results = <<call'.args.ref.v>>
            /\ NewTrace = <<>>
            /\ uploaded' = uploaded
            /\ nupload' = nupload
       /\ \A n \in 1..Len(NewTrace) :
            /\ NewTrace[n].e = "upload" =>
                 /\ ~IsRemoteUrl(NewTrace[n].a)
                 /\ NewTrace[n].a \in files
            /\ (NewTrace[n].e = "synth" /\ call'.args.ref # None
                /\ IsRemoteUrl(call'.args.ref.v)) =>
                 /\ NewTrace[n].a = call'.args.ref.v
                 /\ uploaded' = uploaded
                 /\ nupload' = nupload]_vars

C22_Witness ==
  /\ call.kind = "resolve"
  /\ call.args.ref = S(RefUrl)
  /\ call.args.force
  /\ call.status = "returned"
  /\ call.results = <<RefUrl>>
  /\ ncalls = 2
  /\ nupload = 1
  /\ RefUrl \notin DOMAIN uploaded

-----------------------------------------------------------------------------
(* Properties of a hero shot *)

(* a hero shot of a character the store knows, called with no reference (no
   prompt override is ever given) *)
PlainHero(c) ==
  /\ c.kind = "hero"
  /\ c.args.ref = None
  /\ get_character(c.args.id) # None

(* the synthesis of the item was called and returned an image *)
Synthesized(tr) == \E n \in 1..Len(tr) : tr[n].e = "synth" /\ tr[n].ok

(* the result the spec describes for the hero shot of the id *)
HeroSuccess(res, id) ==
  /\ res.success
  /\ res.prompt_used =
       Substituted(get_prompt_template("hero_shot"),
                   << <<"character_name", get_character(id).name.v>>,
                      <<"character_description", get_character(id).description.v>>,
                      <<"location", <<"soft, neutral background">>>>,
                      <<"style_prompt", active_style_prompt>> >>)
  /\ Get(res.metadata, "character_id", None) = S(<<id>>)
  /\ res.cost = cost_per_image

(* C23 as stated: a hero shot for a known character with no reference and no
   prompt override returns, whenever the synthesis succeeds, a successful
   result whose prompt is the hero_shot template with the character's name
   and the style's prompt substituted, whose metadata names the character id
   and whose cost is the configured cost per image. *)
C23_HeroWhenSynthesized ==
  (PlainHero(call) /\ Synthesized(call.itemtr[1])) =>
    /\ call.status = "returned"
    /\ HeroSuccess(call.results[1], call.args.id)

(* C23, amended: the same result whenever the synthesis succeeds and, with
   persistence enabled, the download and the writes that follow it succeed
   too; when one of them fails the result is a failed one with the same
   prompt. *)
C23_HeroWhenGenerated ==
  (PlainHero(call) /\ Synthesized(call.itemtr[1])) =>
    /\ call.status = "returned"
    /\ call.results[1].prompt_used = <<get_character(call.args.id).name.v[1], " in ">>
                                       \o active_style_prompt
    /\ IF Generated(call.itemtr[1])
       THEN HeroSuccess(call.results[1], call.args.id)
       ELSE ~call.results[1].success /\ Explained(call.results[1])

C23_Witness ==
  /\ call.kind = "hero"
  /\ call.args.id = "barnaby_bunny"
  /\ call.args.ref = None
  /\ save_to_disk
  /\ call.status = "returned"
  /\ call.results[1].success
  /\ call.results[1].prompt_used = <<"Barnaby", " in ", "pixar look">>
  /\ call.results[1].cost = 5
  /\ Get(call.results[1].metadata, "character_id", None) = S(<<"barnaby_bunny">>)

(* the image was downloaded and then written to the path, both with success *)
DownloadedThenWritten(tr, path) ==
  \E d, w \in 1..Len(tr) :
    /\ d < w
    /\ tr[d] = Ev("download", ImageUrl, TRUE)
    /\ tr[w] = Ev("write", path, TRUE)

(* nothing was downloaded and nothing written *)
NothingSaved(tr) == Of(tr, {"download", "write", "mkdir"}) = <<>>

(* C24: every successful result carries the remote image handle; it carries
   a local output path exactly when persistence is enabled, and then the
   image was downloaded and written to that path before the result was
   returned; without persistence no successful result has an output path and
   nothing is downloaded or written. *)
C24_SuccessCarriesImage ==
  (IsSingle(call) \/ IsBatch(call)) =>
    \A j \in 1..Len(call.results) :
      call.results[j].success =>
        /\ call.results[j].image_url = S(ImageUrl)
        /\ (call.results[j].output_path # None) <=> save_to_disk
        /\ save_to_disk =>
             DownloadedThenWritten(call.itemtr[j], call.results[j].output_path.v)
        /\ ~save_to_disk => NothingSaved(call.itemtr[j])

C24_Witness ==
  /\ call.kind = "scene"
  /\ call.status = "returned"
  /\ save_to_disk
  /\ call.results[1].success
  /\ call.results[1].output_path # None
  /\ DownloadedThenWritten(call.itemtr[1], call.results[1].output_path.v)

C24_WitnessNoPersistence ==
  /\ call.kind = "cover"
  /\ call.status = "returned"
  /\ ~save_to_disk
  /\ call.results[1].success
  /\ call.results[1].output_path = None

-----------------------------------------------------------------------------
(* The entry points: the commands of generate.py and the scene endpoint of
   web_app.py in front of the engine, next to direct calls of generate_book *)

(* a command that returns before it calls the engine *)
Rejected(cmd, ref) ==
  /\ CanCall
  /\ call' = Call("rejected", "returned", [NoArgs EXCEPT !.id = cmd, !.ref = ref],
                  <<>>, 1, <<>>, <<>>, <<>>, "")
  /\ ncalls' = ncalls + 1
  /\ UNCHANGED <<save_to_disk, files, uploaded, nupload>>

(* cmd_scene(args, generator): args.prompt, args.ref *)
CmdScene(prompt, ref, fault, now) ==
  IF prompt = <<>> \/ ~Truthy(ref) THEN Rejected("cmd_scene", ref)
  ELSE CallScene(prompt, <<"barnaby_bunny">>, ref, fault, now)

(* cmd_book(args, generator): args.book_id, args.ref, args.no_cover and the
   parsed args.pages *)
CmdBook(book_id, ref, no_cover, page_range) ==
  IF book_id = "" \/ ~Truthy(ref) THEN Rejected("cmd_book", ref)
  ELSE StartBook(book_id, ref, ~no_cover, page_range)

(* api_generate_scene(): the FAL_KEY of the environment and the prompt and
   reference_image of the request *)
ApiGenerateScene(fal_key, prompt, ref, fault, now) ==
  IF ~fal_key \/ prompt = <<>> \/ ~Truthy(ref) THEN Rejected("api_generate_scene", ref)
  ELSE CallScene(prompt, <<"barnaby_bunny">>, ref, fault, now)

EntryRefs == {None, S(<<>>), S(RefUrl), S(RefFile)}
EntryPrompts == {<<>>, <<"a picnic">>}
EntryBooks == {"", "book_01"}
EntryRanges == {None, PageRange(2, 3)}

InitEntry ==
  /\ LoadedFrom(EngineConfig)
  /\ save_to_disk = FALSE
  /\ files = LocalFiles
  /\ EngineIdle

NextEntry ==
  \/ \E prompt \in EntryPrompts, ref \in EntryRefs, fault \in BookFaults, now \in Clock :
       CmdScene(prompt, ref, fault, now) /\ UNCHANGED storeVars
  \/ \E id \in EntryBooks, ref \in EntryRefs, no_cover \in BOOLEAN, range \in EntryRanges :
       CmdBook(id, ref, no_cover, range) /\ UNCHANGED storeVars
  \/ \E fal_key \in BOOLEAN, prompt \in EntryPrompts, ref \in EntryRefs,
        fault \in BookFaults, now \in Clock :
       ApiGenerateScene(fal_key, prompt, ref, fault, now) /\ UNCHANGED storeVars
  \/ \E ref \in EntryRefs, include_cover \in BOOLEAN, range \in EntryRanges :
       StartBook("book_01", ref, include_cover, range) /\ UNCHANGED storeVars
  \/ \E fault \in BookFaults, now \in Clock : BatchStep(fault, now) /\ UNCHANGED storeVars

SpecEntry == InitEntry /\ [][NextEntry]_vars

(* the items of the call that were generated so far *)
GeneratedItems(c) == 1..Len(c.itemtr)

(* C25 as stated: generate_scene is never called with an absent or empty
   reference: the scene command, the book command, the scene endpoint and
   generate_book itself turn a missing reference down before they call it. *)
C25_SceneNeverWithoutReference ==
  /\ call.kind = "scene" => Truthy(call.args.ref)
  /\ call.kind = "book" =>
       \A j \in GeneratedItems(call) :
         call.items[j].kind = "scene" => Truthy(call.args.ref)

(* C25, the part that holds: the scene command, the book command and the scene endpoint
   turn a missing reference down before they call the engine, and call it
   with the reference they were given otherwise; generate_book itself does
   not look at the reference: called with none it calls generate_scene for
   each scene, which returns a failed result without any synthesis. *)
C25_EntryPointsReject ==
  [][EngineStep =>
       /\ \A prompt \in EntryPrompts, ref \in EntryRefs, fault \in BookFaults, now \in Clock :
            /\ CmdScene(prompt, ref, fault, now) =>
                 IF Truthy(ref) /\ prompt # <<>>
                 THEN call'.kind = "scene" /\ call'.args.ref = ref
                 ELSE call'.kind = "rejected" /\ NewTrace = <<>>
            /\ \A fal_key \in BOOLEAN :
                 ApiGenerateScene(fal_key, prompt, ref, fault, now) =>
                   IF Truthy(ref) /\ prompt # <<>> /\ fal_key
                   THEN call'.kind = "scene" /\ call'.args.ref = ref
                   ELSE call'.kind = "rejected" /\ NewTrace = <<>>
       /\ \A id \in EntryBooks, ref \in EntryRefs, no_cover \in BOOLEAN,
             range \in EntryRanges :
            CmdBook(id, ref, no_cover, range) =>
              IF Truthy(ref) /\ id # ""
              THEN call'.kind = "book" /\ call'.args.ref = ref
              ELSE call'.kind = "rejected" /\ NewTrace = <<>>
       /\ (call.kind = "book" /\ call.status = "running" /\ ~Truthy(call.args.ref)) =>
            /\ Len(call'.results) = Len(call.results) + 1
            /\ ~call'.results[Len(call'.results)].success
            /\ Explained(call'.results[Len(call'.results)])
            /\ Of(NewTrace, {"synth", "upload"}) = <<>>]_vars

C25_Witness ==
  /\ call.kind = "rejected"
  /\ call.args.id = "cmd_book"
  /\ call.args.ref = S(<<>>)
  /\ ncalls = 2
  /\ nupload = 0

C25_WitnessDirect ==
  /\ call.kind = "book"
  /\ call.args.ref = None
  /\ call.status = "returned"
  /\ Len(call.results) = 2
  /\ call.items[2].kind = "scene"
  /\ ~call.results[2].success

-----------------------------------------------------------------------------
(* Properties of a batch run *)

SynthCalls(tr) == Len(Of(tr, {"synth"}))

(* C26: a batch run is a finite linear sequence of steps without retries:
   the synthesis is called at most once per item, whatever its outcome, every
   item is taken once and in order, and the run returns after its last
   item. *)
C26_RunsToLastItem ==
  IsBatch(call) =>
    /\ \A j \in 1..Len(call.itemtr) : SynthCalls(call.itemtr[j]) <= 1
    /\ Len(call.itemtr) <= Len(call.items)
    /\ call.status # "running" =>
         /\ call.status = "returned"
         /\ Len(call.itemtr) = Len(call.items)
         /\ Len(call.results) = Len(call.items)

(* C26, the parts that hold: a step of a running batch takes exactly the
   next item and calls the synthesis at most once for it, also when the call
   fails; no item is taken twice; the position in the list of items grows
   with every step and the run ends at the latest with its last item, so a
   run of n items ends within n steps. *)
C26_OneAttemptPerItem ==
  [][(call.status = "running" /\ call' # call) =>
       /\ Len(call'.itemtr) = call.i
       /\ Len(call.itemtr) = call.i - 1
       /\ SynthCalls(NewTrace) <= 1
       /\ call'.items = call.items
       /\ call'.status = "running" => call'.i = call.i + 1 /\ call'.i <= Len(call.items)
       /\ call.i = Len(call.items) => call'.status # "running"]_vars

C26_Witness ==
  /\ call.kind = "book"
  /\ call.status = "raised"
  /\ Len(call.items) = 3
  /\ Len(call.results) = 1
  /\ Len(call.itemtr) = 2
  /\ call.exc = "IndexError"

-----------------------------------------------------------------------------
(* Properties of the order of the steps of one generation *)

(* the positions of the events of some kinds in the events of an item *)
Positions(tr, kinds) == {n \in 1..Len(tr) : tr[n].e \in kinds}

(* the reference of the item could not be resolved: its upload failed, or
   the result reports the missing file *)
ResolutionFailed(tr, res) ==
  \/ \E n \in Positions(tr, {"upload"}) : ~tr[n].ok
  \/ /\ ~res.success
     /\ res.error.v[1] \in {"Image not found: ", "Is a directory: '.'",
                            "'NoneType' object has no attribute 'startswith'"}

OrderedSteps(tr) ==
  /\ \A u \in Positions(tr, {"upload"}), s \in Positions(tr, {"synth"}) : u < s /\ tr[u].ok
  /\ \A s \in Positions(tr, {"synth"}), w \in Positions(tr, {"download", "write", "mkdir"}) :
       s < w /\ tr[s].ok
  /\ \A d \in Positions(tr, {"download"}), w \in Positions(tr, {"write"}) : d < w /\ tr[d].ok
  /\ Cardinality(Positions(tr, {"synth"})) <= 1
  /\ Positions(tr, {"download", "write"}) # {} => Positions(tr, {"synth"}) # {}

(* C27: within one generation the steps are in order: the upload of the
   reference, if any, is over before the synthesis is called, and the image
   is downloaded and written only after the synthesis returned an image; no
   synthesis is called when the reference cannot be resolved, and nothing is
   written when the synthesis fails. *)
C27_StepsInOrder ==
  (IsSingle(call) \/ IsBatch(call)) =>
    /\ \A j \in 1..Len(call.itemtr) : OrderedSteps(call.itemtr[j])
    /\ \A j \in 1..Len(call.results) :
         ResolutionFailed(call.itemtr[j], call.results[j]) =>
           Positions(call.itemtr[j], {"synth", "download", "write"}) = {}

C27_Witness ==
  /\ call.kind = "scene"
  /\ call.status = "returned"
  /\ call.results[1].success
  /\ Len(call.itemtr[1]) >= 5
  /\ call.itemtr[1][1].e = "upload"
  /\ call.itemtr[1][2].e = "synth"
  /\ Positions(call.itemtr[1], {"download"}) # {}
  /\ Positions(call.itemtr[1], {"write"}) # {}

C27_WitnessNoSynthesis ==
  /\ call.kind = "scene"
  /\ call.status = "returned"
  /\ call.itemtr[1] = <<Ev("upload", RefFile, FALSE)>>
  /\ ~call.results[1].success

-----------------------------------------------------------------------------
(* Properties of the files of a book *)

(* the items of the call whose result is a success *)
Successes(c) == {j \in 1..Len(c.results) : c.results[j].success}

(* the paths the successful items wrote their image to *)
ImageFiles(c) == {c.results[j].output_path.v : j \in Successes(c)}

(* C28: in a book batch with persistence enabled every successful item has
   an image file of its own: no two successful items, cover or scenes, are
   written to the same path, whatever the page numbers of the scenes, so
   there are as many image files as successful results. *)
C28_OneFilePerSuccess ==
  (call.kind = "book" /\ save_to_disk) =>
    /\ \A j, k \in Successes(call) :
         j # k => call.results[j].output_path # call.results[k].output_path
    /\ Cardinality(ImageFiles(call)) = Cardinality(Successes(call))

(* C28, the part that holds: the successful items of a book whose scenes
   have page numbers that differ are written to paths that differ. *)
C28_DistinctPagesDistinctFiles ==
  (call.kind = "book" /\ save_to_disk
   /\ \A j, k \in 1..Len(call.args.scenes) :
        j # k => PageOf(call.args.scenes[j]) # PageOf(call.args.scenes[k])) =>
    Cardinality(ImageFiles(call)) = Cardinality(Successes(call))

C28_Witness ==
  /\ call.kind = "book"
  /\ call.args.id = "book_06"
  /\ save_to_disk
  /\ call.status = "returned"
  /\ Pages(call.args.scenes) = <<2, 2>>
  /\ Successes(call) = {1, 2}
  /\ call.results[1].output_path = call.results[2].output_path
  /\ \E n \in 1..Len(call.itemtr[2]) :
       call.itemtr[2][n] = Ev("write", call.results[1].output_path.v, TRUE)

-----------------------------------------------------------------------------
(* The store with a configuration file that changes under it: load reads
   whatever is at config_path when it is called (path.exists(), open, json.load),
   so between two operations the file may have been removed, cut short, or
   rewritten with another document. *)

(* What the file can be replaced with: nothing, a document cut after its
   third token, well-formed JSON whose locations section is a string, and
   a good document *)
ReplacedFiles ==
  { NoFile,
    File(SubSeq(Dump(BareConfig), 1, 3)),
    File(Dump(D(<< <<"characters", D(<< <<"gus_goat", CharData("Gus", "a calm goat")>> >>)>>,
                   <<"locations", S(<<"nowhere">>)>> >>))),
    File(Dump(BareConfig)) }

Replaced(file) ==
  /\ disk' = file
  /\ UNCHANGED <<raw, characters, locations, books, style_presets, prompt_templates,
                 image_settings, ret, nmut>>

NextReload ==
  \/ NextStore
  \/ \E file \in ReplacedFiles : Replaced(file)

SpecReload == InitStore /\ [][NextReload /\ UNCHANGED engineVars]_vars

-----------------------------------------------------------------------------
(* C29: a load that fails leaves the store exactly as it was before the call:
   the raw configuration (the active style is one of its keys) and every typed
   collection are unchanged, so no failed load leaves a partly replaced
   state. *)
StoreUnchanged ==
  UNCHANGED <<raw, characters, locations, books, style_presets, prompt_templates,
              image_settings>>

C29_FailedLoadChangesNothing ==
  [][StepOf("load") /\ ~ret'.ok => StoreUnchanged]_vars

(* What holds: a load of a file that is missing or is not one JSON value
   fails and changes nothing, since _raw_config is assigned only once json.load
   has returned. *)
Unreadable(file) == ~file.exists \/ ~JsonLoad(file.toks).ok

C29_UnreadableChangesNothing ==
  [][StepOf("load") /\ Unreadable(disk) => ~ret'.ok /\ StoreUnchanged]_vars

(* A load failed on a JSON document whose locations are not a mapping: the raw
   configuration is the new document, the characters are the new document's,
   the locations are empty and the books are still the old ones *)
C29_Witness ==
  /\ ret = Ret("load", FALSE, <<>>)
  /\ ~Unreadable(disk)
  /\ raw = JsonLoad(disk.toks).node
  /\ Keys(characters) = <<"gus_goat">>
  /\ locations = <<>>
  /\ books # <<>>

(* A load failed on a missing or cut file and the store is still the one
   that was loaded at construction *)
C29_WitnessUnreadable ==
  /\ ret = Ret("load", FALSE, <<>>)
  /\ Unreadable(disk)
  /\ characters # <<>>

-----------------------------------------------------------------------------
(* C30: an operation that fails on a lookup (unknown character of a hero
   shot, no known character of a group shot, unknown book or featured character
   of a cover) makes no upload and no synthesis and leaves the upload cache as
   it was; an upload that fails adds nothing to the cache; and an entry of
   the cache is only ever set to the handle a successful upload of that path
   returned. *)
LookupFailed(c) ==
  \/ c.kind = "hero" /\ get_character(c.args.id) = None
  \/ c.kind = "group" /\ Resolved(KeysOf(c.args.character_ids)) = <<>>
  \/ /\ c.kind = "cover"
     /\ \/ get_book(c.args.id) = None
        \/ get_character(AsKey(get_book(c.args.id).featured_character)) = None

(* the entries of the cache that the step set or changed *)
NewEntries ==
  {p \in DOMAIN uploaded' : p \notin DOMAIN uploaded \/ uploaded'[p] # uploaded[p]}

C30_CacheOnlyFromUploads ==
  [][EngineStep =>
       LET ups == Of(NewTrace, {"upload"})
       IN /\ LookupFailed(call') =>
               /\ call'.status = "returned"
               /\ ~call'.results[1].success
               /\ NewTrace = <<>>
               /\ nupload' = nupload
               /\ uploaded' = uploaded
          /\ (\A n \in 1..Len(ups) : ~ups[n].ok) => uploaded' = uploaded
          /\ \A p \in NewEntries :
               /\ \E n \in 1..Len(ups) : ups[n] = Ev("upload", p, TRUE)
               /\ uploaded'[p] = UploadUrl(nupload')
          /\ DOMAIN uploaded \subseteq DOMAIN uploaded']_vars

(* A cover of an unknown book was asked with a local reference that is on
   disk and not in the cache: nothing was uploaded *)
C30_Witness ==
  /\ call.kind = "cover"
  /\ call.status = "returned"
  /\ get_book(call.args.id) = None
  /\ call.args.ref = S(RefFile)
  /\ RefFile \in files
  /\ RefFile \notin DOMAIN uploaded
  /\ nupload = 0
  /\ call.itemtr = << <<>> >>

(* The one upload so far failed and the cache is still empty *)
C30_WitnessFailedUpload ==
  /\ call.itemtr # <<>>
  /\ Of(call.itemtr[Len(call.itemtr)], {"upload"}) = <<Ev("upload", RefFile, FALSE)>>
  /\ uploaded = <<>>
  /\ nupload = 1

====
